---- MODULE Spec2Model ----
(***************************************************************************)
(* A model of util.c of utilH:                                             *)
(*   - CONFIG_getKey: the loop over the lines of a config file and the     *)
(*     character scan of one line ("key = value // comment");              *)
(*   - atoiFP: the fixed point number parser with multiplier suffixes.     *)
(*                                                                         *)
(* Characters are their codes.  A C string is the run of characters from   *)
(* a start index up to the first 0.  Buffers are TLA+ sequences; the C     *)
(* index i is the element i+1 (see At).  A pointer into a buffer is its    *)
(* index, the null pointer is NULL.                                        *)
(*                                                                         *)
(* f_gets is not part of util.c: bytesRead is taken to be the number of    *)
(* characters it stored, with a 0 after them.  The lines that are scanned  *)
(* are shorter than CONFIG_MAX_LINE_SIZE, which is scaled down with them;  *)
(* of a line that fills the row buffer the lengths of its chunks are       *)
(* modelled, not their text, and f_gets is taken never to store more than  *)
(* the buffer holds.                                                       *)
(***************************************************************************)
EXTENDS Integers, Sequences, FiniteSets, TLC

\* ------------------------------------------------------------ characters
NUL    == 0
LF     == 10
SPACE  == 32
SLASH  == 47
EQUALS == 61
DIGIT_0 == 48
PLUS    == 43
MINUS   == 45
DOT     == 46
CHAR_E  == 69
CHAR_e  == 101
CHAR_d  == 100
CHAR_k  == 107
CHAR_s  == 115
\* an ordinary letter for keys and values
LETTER == CHAR_k

NULL == -1

\* ---------------------------------------------------------------- bounds
\* longest line f_gets hands to the scan, in characters (terminator included)
MaxLineLen == 7
\* longest line that contains a 0 byte
MaxNulLineLen == 4
\* the line limit of one call; the header sets 128, the loop only compares
\* rowsRead with it
LineCountBound == 2
\* most lines of at most 2 bytes that a file holds
MaxEmptyLines == 1

CONFIG_MAX_LINE_COUNT == LineCountBound

\* most reads of one overlong line that fill the row buffer
MaxChunks == 3

\* the size of the row buffer; the header sets 128, the loop only compares
\* bytesRead with it
CONFIG_MAX_LINE_SIZE == MaxLineLen + 1

\* ------------------------------------------------------------ buffers
At(buf, i) == buf[i + 1]

Put(buf, i, c) == [buf EXCEPT ![i + 1] = c]

\* index of the first 0 at or after p (strlen/strcpy/strcmp stop there)
RECURSIVE StrEnd(_, _)
StrEnd(buf, p) == IF At(buf, p) = NUL THEN p ELSE StrEnd(buf, p + 1)

\* the C string that starts at index p of buf
CStr(buf, p) == SubSeq(buf, p + 1, StrEnd(buf, p))

StringsOf(alphabet, lo, hi) == UNION {[1..n -> alphabet] : n \in lo..hi}

isAsciiSpecialCharacter(c) == c < 32 \/ c > 127

IsBlank(c) == isAsciiSpecialCharacter(c) \/ c = SPACE

\* ------------------------------------------------------------ inputs
TextAlphabet == {LF, SPACE, SLASH, EQUALS, LETTER}

\* what one f_gets call can put into the row buffer: any text, also with a
\* 0 byte in it, with or without a final line feed
Lines == StringsOf(TextAlphabet, 1, MaxLineLen)
           \cup StringsOf(TextAlphabet \cup {NUL}, 1, MaxNulLineLen)

KeysToFind == {<<LETTER>>}

\* ------------------------------------------------------------- state
VARIABLES
    pc,             \* position in CONFIG_getKey
    keyToFind,      \* parameter
    rowsRead,
    rowBuffer,      \* the bytes f_gets wrote: the line and its 0
    bytesRead,
    lineRead,       \* history: the line as f_gets delivered it
    linesRead,      \* history: how many lines f_gets has delivered
    chunksSkipped,  \* history: bytesRead of each read of the overlong line
                    \* skipped last, until the next line is read
    written,        \* history: the indices of rowBuffer the scan wrote to
    rowBufferFrees, \* history: how often vPortFree(rowBuffer) was called
    usedAfterFree,  \* history: rowBuffer was read or written after a free
    currChar,
    state,
    consequitiveslashCount,
    key,
    value,
    currentEndOfValue,
    currentEndOfValueBeforeCommentSequence,
    wasWaitingForValueBeforeCommentSequence,
    ret,            \* <<>>: nothing returned or NULL; <<s>>: the string s
    \* atoiFP (its state and ret are fpState and fpRet here)
    fpPc,           \* position in atoiFP
    token,          \* the buffer a points into, with its 0
    a,              \* index into token
    strlen,
    baseExponent,
    ignoreUnit,
    checkForLength,
    fpState,
    currentNumberPositionExponent,
    isNumberNegative,
    isExponentADot,
    breakBit,
    startOfNumber,
    startOfNumberExponent,
    fpRet,
    fpResult,       \* <<>> until atoiFP returns, then <<the result>>
    fpReads,        \* history: the indices of token that were dereferenced
    strlenPassed,   \* history: strlen as the caller passed it
    finished,       \* history: the calls that have returned, with their results
    \* setBit and getBit
    data,           \* the byte array the caller passes
    lastSet,        \* history: bit number -> value of the last setBit on it
    \* qSin
    sinX,           \* the argument of the last call
    sinIndex,       \* xt, the table index of the last call
    sinResult,      \* <<>> before the first call, then <<the value returned>>
    \* PWL_getY
    pwl,            \* the last call's Pwl_t * pwl: <<>> for NULL, else <<*pwl>>
    pwlX,           \* the x passed to the last call
    pwlRows,        \* <<lastRow, currentRow>> used to interpolate, else <<>>
    pwlResult       \* <<>> before the first call, then <<the value returned>>

scanVars == <<currChar, state, consequitiveslashCount, key, value,
              currentEndOfValue, currentEndOfValueBeforeCommentSequence,
              wasWaitingForValueBeforeCommentSequence>>

heapVars == <<rowBufferFrees, usedAfterFree>>

cfgVars == <<pc, keyToFind, rowsRead, rowBuffer, bytesRead, lineRead,
             linesRead, chunksSkipped, written, heapVars, scanVars, ret>>

fpVars == <<fpPc, token, a, strlen, baseExponent, ignoreUnit, checkForLength,
            fpState, currentNumberPositionExponent, isNumberNegative,
            isExponentADot, breakBit, startOfNumber, startOfNumberExponent,
            fpRet, fpResult, fpReads, strlenPassed, finished>>

bitVars == <<data, lastSet>>

sinVars == <<sinX, sinIndex, sinResult>>

pwlVars == <<pwl, pwlX, pwlRows, pwlResult>>

utilVars == <<bitVars, sinVars, pwlVars>>

vars == <<cfgVars, fpVars, utilVars>>

\* the locals of the loop body as declared at the top of an iteration
ScanLocalsInit ==
    /\ currChar = 0
    /\ state = "key_trimLeadingSpaces"
    /\ consequitiveslashCount = 0
    /\ key = NULL
    /\ value = NULL
    /\ currentEndOfValue = NULL
    /\ currentEndOfValueBeforeCommentSequence = NULL
    /\ wasWaitingForValueBeforeCommentSequence = FALSE

ScanLocalsReset ==
    /\ currChar' = 0
    /\ state' = "key_trimLeadingSpaces"
    /\ consequitiveslashCount' = 0
    /\ key' = NULL
    /\ value' = NULL
    /\ currentEndOfValue' = NULL
    /\ currentEndOfValueBeforeCommentSequence' = NULL
    /\ wasWaitingForValueBeforeCommentSequence' = FALSE

\* atoiFP is not running
FpIdle ==
    /\ fpPc = "idle"
    /\ token = <<NUL>>
    /\ a = 0
    /\ strlen = 0
    /\ baseExponent = 0
    /\ ignoreUnit = 0
    /\ checkForLength = FALSE
    /\ fpState = "waitStart"
    /\ currentNumberPositionExponent = 0
    /\ isNumberNegative = FALSE
    /\ isExponentADot = FALSE
    /\ breakBit = FALSE
    /\ startOfNumber = NULL
    /\ startOfNumberExponent = NULL
    /\ fpRet = 0
    /\ fpResult = <<>>
    /\ fpReads = {}
    /\ strlenPassed = 0
    /\ finished = {}

\* highest bit number that is set or read
MaxBitNumber == 8

BitNumbers == 0..MaxBitNumber

\* a byte array that starts all zero, large enough for every bit number
BitsInit ==
    /\ data = [i \in 1..((MaxBitNumber \div 8) + 1) |-> 0]
    /\ lastSet = [n \in BitNumbers |-> NULL]

\* no call of qSin yet
SinInit ==
    /\ sinX = 0
    /\ sinIndex = 0
    /\ sinResult = <<>>

\* no call of PWL_getY yet
PwlInit ==
    /\ pwl = <<>>
    /\ pwlX = 0
    /\ pwlRows = <<>>
    /\ pwlResult = <<>>

\* CONFIG_getKey after the row buffer was allocated, before the first read
Init ==
    /\ pc = "read"
    /\ keyToFind \in KeysToFind
    /\ rowsRead = 0
    /\ rowBuffer = <<NUL>>
    /\ bytesRead = 0
    /\ lineRead = <<>>
    /\ linesRead = 0
    /\ chunksSkipped = <<>>
    /\ written = {}
    /\ rowBufferFrees = 0
    /\ usedAfterFree = FALSE
    /\ ScanLocalsInit
    /\ ret = <<>>
    /\ FpIdle
    /\ BitsInit
    /\ SinInit
    /\ PwlInit

\* ------------------------------------------------- CONFIG_getKey: the file loop
RowBufferIsKept(frees) == frees

\* vPortFree(rowBuffer)
RowBufferIsFreed(frees) == frees + 1

\* rowBuffer is handed to f_gets, strcmp, strlen or strcpy, or indexed
RowBufferIsUsed == usedAfterFree' = (usedAfterFree \/ rowBufferFrees > 0)

\* f_gets delivered no byte: free the row buffer, return NULL
ReadNothing ==
    /\ pc = "read"
    /\ rowsRead < CONFIG_MAX_LINE_COUNT
    /\ pc' = "returned"
    /\ ret' = <<>>
    /\ UNCHANGED <<keyToFind, rowsRead, rowBuffer, bytesRead, lineRead,
                   linesRead, written, scanVars>>
    /\ UNCHANGED chunksSkipped
    /\ RowBufferIsUsed
    /\ rowBufferFrees' = RowBufferIsFreed(rowBufferFrees)
    /\ UNCHANGED <<fpVars, utilVars>>

ScansLastCharacter(n) == n

\* the for loop runs while currChar < bytesRead-1
LoopLimit(n) == n - 1

\* f_gets delivered a line of at most 2 bytes: "continue", rowsRead unchanged.
\* Between two lines the buffer's content is dead (the next f_gets overwrites
\* it) and the model keeps it cleared.
SkipEmptyLine ==
    /\ pc = "read"
    /\ rowsRead < CONFIG_MAX_LINE_COUNT
    /\ linesRead - rowsRead < MaxEmptyLines
    /\ \E line \in Lines : Len(line) <= 2
    /\ linesRead' = linesRead + 1
    /\ UNCHANGED <<pc, keyToFind, rowsRead, rowBuffer, bytesRead, lineRead,
                   written, scanVars, ret>>
    /\ chunksSkipped' = <<>>
    /\ RowBufferIsUsed
    /\ UNCHANGED rowBufferFrees
    /\ UNCHANGED <<fpVars, utilVars>>

\* f_gets filled the whole row buffer (line 347): the rest of the line is
\* to be read and dropped
SkipOverlongLine ==
    /\ pc = "read"
    /\ rowsRead < CONFIG_MAX_LINE_COUNT
    /\ pc' = "skip"
    /\ bytesRead' = CONFIG_MAX_LINE_SIZE
    /\ chunksSkipped' = <<CONFIG_MAX_LINE_SIZE>>
    /\ linesRead' = linesRead + 1
    /\ UNCHANGED <<keyToFind, rowsRead, rowBuffer, lineRead, written,
                   scanVars, ret>>
    /\ RowBufferIsUsed
    /\ UNCHANGED rowBufferFrees
    /\ UNCHANGED <<fpVars, utilVars>>

SkipEndsAtOnce(n) == TRUE

\* lines 349-350: the inner loop ends when f_gets delivers nothing or less
\* than the buffer holds
SkipEnds(n) == n = 0 \/ n < CONFIG_MAX_LINE_SIZE

\* what one f_gets call of the inner loop can return
ChunkLengths == 0..CONFIG_MAX_LINE_SIZE

\* lines 349-357: one more read of the overlong line; after the last one the
\* row is counted and the file loop continues, nothing of the line is scanned
SkipChunk ==
    /\ pc = "skip"
    /\ \E n \in ChunkLengths :
          IF SkipEnds(n)
          THEN /\ rowsRead' = rowsRead + 1
               /\ bytesRead' = 0
               /\ chunksSkipped' = Append(chunksSkipped, n)
               /\ pc' = "read"
          ELSE /\ Len(chunksSkipped) < MaxChunks
               /\ bytesRead' = n
               /\ chunksSkipped' = Append(chunksSkipped, n)
               /\ UNCHANGED <<pc, rowsRead>>
    /\ UNCHANGED <<keyToFind, rowBuffer, lineRead, linesRead, written,
                   scanVars, ret>>
    /\ RowBufferIsUsed
    /\ UNCHANGED rowBufferFrees
    /\ UNCHANGED <<fpVars, utilVars>>

\* f_gets delivered a line: the locals of the loop body are initialised
ReadLine ==
    /\ pc = "read"
    /\ rowsRead < CONFIG_MAX_LINE_COUNT
    /\ \E line \in Lines :
          /\ Len(line) > 2
          /\ rowBuffer' = line \o <<NUL>>
          /\ bytesRead' = Len(line)
          /\ lineRead' = line
    /\ linesRead' = linesRead + 1
    /\ written' = {}
    /\ ScanLocalsReset
    /\ pc' = "scan"
    /\ UNCHANGED <<keyToFind, rowsRead, ret>>
    /\ chunksSkipped' = <<>>
    /\ RowBufferIsUsed
    /\ UNCHANGED rowBufferFrees
    /\ UNCHANGED <<fpVars, utilVars>>

\* ------------------------------------------------- the scan of one character
\* a comment needs three slashes
ThirdSlashIsComment(c, slashCount) == c = SLASH /\ slashCount = 2

\* the second of two consecutive slashes
IsCommentSequence(c, slashCount) == c = SLASH /\ slashCount = 1

\* a comment found: the scan state and the value pointer are kept
KeepsValueAfterComment(st, v, wasWaiting) == <<st, v>>

\* lines 406-410: a comment that starts where the value would start takes
\* the value back; the result is <<state, value>>
AfterComment(st, v, wasWaiting) ==
    IF wasWaiting THEN <<"value_trimLeadingSpaces", NULL>> ELSE <<st, v>>

\* lines 401-404
EndOfValueAfterComment(eov, eovBefore) ==
    IF eovBefore # NULL THEN eovBefore ELSE eov

\* the switch, with a slip: any non-blank character after the key is taken
\* for the equal sign
AnyCharEndsEqualSignFind(st, c) ==
    CASE st = "key_trimLeadingSpaces" ->
            IF c # SPACE /\ ~isAsciiSpecialCharacter(c) /\ c # EQUALS
            THEN "key_findEnd" ELSE st
      [] st = "key_findEnd" ->
            IF isAsciiSpecialCharacter(c) \/ c = SPACE THEN "equalSign_find"
            ELSE IF c = EQUALS THEN "value_trimLeadingSpaces"
            ELSE st
      [] st = "equalSign_find" ->
            IF c # SPACE /\ ~isAsciiSpecialCharacter(c)
            THEN "value_trimLeadingSpaces" ELSE st
      [] st = "value_trimLeadingSpaces" ->
            IF c # SPACE /\ ~isAsciiSpecialCharacter(c)
            THEN "value_findEnd" ELSE st
      [] OTHER -> st

\* the switch, with a slip: the value starts at the first character after
\* the equal sign, blank or not
ValueStartsAtOnce(st, c) ==
    CASE st = "key_trimLeadingSpaces" ->
            IF c # SPACE /\ ~isAsciiSpecialCharacter(c) /\ c # EQUALS
            THEN "key_findEnd" ELSE st
      [] st = "key_findEnd" ->
            IF isAsciiSpecialCharacter(c) \/ c = SPACE THEN "equalSign_find"
            ELSE IF c = EQUALS THEN "value_trimLeadingSpaces"
            ELSE st
      [] st = "equalSign_find" ->
            IF c = EQUALS THEN "value_trimLeadingSpaces" ELSE st
      [] st = "value_trimLeadingSpaces" -> "value_findEnd"
      [] OTHER -> st

NonBlankEndsEqualSignFind(c) == ~IsBlank(c)

\* equalSign_find is left on '=' and on nothing else
EndsEqualSignFind(c) == c = EQUALS

\* the switch: the next state of the detection state machine
NextState(st, c) ==
    CASE st = "key_trimLeadingSpaces" ->
            IF c # SPACE /\ ~isAsciiSpecialCharacter(c) /\ c # EQUALS
            THEN "key_findEnd" ELSE st
      [] st = "key_findEnd" ->
            IF isAsciiSpecialCharacter(c) \/ c = SPACE THEN "equalSign_find"
            ELSE IF c = EQUALS THEN "value_trimLeadingSpaces"
            ELSE st
      [] st = "equalSign_find" ->
            IF EndsEqualSignFind(c) THEN "value_trimLeadingSpaces" ELSE st
      [] st = "value_trimLeadingSpaces" ->
            IF c # SPACE /\ ~isAsciiSpecialCharacter(c)
            THEN "value_findEnd" ELSE st
      [] OTHER -> st

\* the scan goes on after an '=' where the key should start
NeverStopsAtEquals(st, c) == FALSE

\* line 436-441: '=' where the key should start ends the scan of the line
KeyIsMissing(st, c) ==
    st = "key_trimLeadingSpaces" /\ c # SPACE
       /\ ~isAsciiSpecialCharacter(c) /\ c = EQUALS

\* lines 499-514: the candidate for the end of the value
NextEndOfValue(st, c, eov, i) ==
    IF st = "value_findEnd"
    THEN IF isAsciiSpecialCharacter(c) \/ c = SPACE
         THEN (IF eov = NULL THEN i ELSE eov)
         ELSE NULL
    ELSE eov

\* lines 458 and 465: the key is terminated in place
TerminatesKey(st, c) ==
    st = "key_findEnd" /\ (isAsciiSpecialCharacter(c) \/ c = SPACE \/ c = EQUALS)

ScanChar ==
    /\ pc = "scan"
    /\ currChar < LoopLimit(bytesRead)
    /\ LET c == At(rowBuffer, currChar) IN
       IF c = NUL
       THEN \* line 391
            /\ pc' = "exit"
            /\ UNCHANGED <<rowBuffer, written, scanVars>>
       ELSE IF IsCommentSequence(c, consequitiveslashCount)
       THEN \* lines 396-414
            /\ currentEndOfValue' =
                 EndOfValueAfterComment(currentEndOfValue,
                                        currentEndOfValueBeforeCommentSequence)
            /\ state' = AfterComment(state, value,
                                wasWaitingForValueBeforeCommentSequence)[1]
            /\ value' = AfterComment(state, value,
                                wasWaitingForValueBeforeCommentSequence)[2]
            /\ rowBuffer' = Put(rowBuffer, currChar - 1, NUL)
            /\ written' = written \cup {currChar - 1}
            /\ pc' = "exit"
            /\ UNCHANGED <<currChar, consequitiveslashCount, key,
                           currentEndOfValueBeforeCommentSequence,
                           wasWaitingForValueBeforeCommentSequence>>
       ELSE \* lines 415-426, then the switch
            /\ consequitiveslashCount' =
                 IF c = SLASH THEN consequitiveslashCount + 1 ELSE 0
            /\ currentEndOfValueBeforeCommentSequence' =
                 IF c = SLASH
                 THEN (IF currentEndOfValue # NULL THEN currentEndOfValue
                       ELSE currentEndOfValueBeforeCommentSequence)
                 ELSE NULL
            /\ wasWaitingForValueBeforeCommentSequence' =
                 IF c = SLASH
                 THEN (state = "value_trimLeadingSpaces"
                       \/ wasWaitingForValueBeforeCommentSequence)
                 ELSE FALSE
            /\ state' = NextState(state, c)
            /\ key' = IF state = "key_trimLeadingSpaces"
                         /\ NextState(state, c) = "key_findEnd"
                      THEN currChar ELSE key
            /\ value' = IF state = "value_trimLeadingSpaces"
                           /\ NextState(state, c) = "value_findEnd"
                        THEN currChar ELSE value
            /\ currentEndOfValue' =
                 NextEndOfValue(state, c, currentEndOfValue, currChar)
            /\ rowBuffer' = IF TerminatesKey(state, c)
                            THEN Put(rowBuffer, currChar, NUL) ELSE rowBuffer
            /\ written' = IF TerminatesKey(state, c)
                          THEN written \cup {currChar} ELSE written
            /\ currChar' = IF KeyIsMissing(state, c)
                           THEN bytesRead + 1 ELSE currChar + 1
            /\ pc' = "scan"
    /\ UNCHANGED <<keyToFind, rowsRead, bytesRead, lineRead, linesRead, ret>>
    /\ UNCHANGED chunksSkipped
    /\ RowBufferIsUsed
    /\ UNCHANGED rowBufferFrees
    /\ UNCHANGED <<fpVars, utilVars>>

\* line 520
ScanSucceeded(st) == st = "value_findEnd"

\* the for loop has ended (its condition, or a break): lines 520-522
ScanExit ==
    /\ \/ pc = "exit"
       \/ pc = "scan" /\ ~(currChar < LoopLimit(bytesRead))
    /\ rowBuffer' = IF ScanSucceeded(state) /\ currentEndOfValue # NULL
                    THEN Put(rowBuffer, currentEndOfValue, NUL)
                    ELSE rowBuffer
    /\ written' = IF ScanSucceeded(state) /\ currentEndOfValue # NULL
                  THEN written \cup {currentEndOfValue}
                  ELSE written
    /\ pc' = "scanned"
    /\ UNCHANGED <<keyToFind, rowsRead, bytesRead, lineRead, linesRead,
                   scanVars, ret>>
    /\ UNCHANGED chunksSkipped
    /\ RowBufferIsUsed
    /\ UNCHANGED rowBufferFrees
    /\ UNCHANGED <<fpVars, utilVars>>

AnyKeyMatches(buf, k, wanted) == TRUE

\* line 529: strcmp(keyToFind, key) == 0
KeyMatches(buf, k, wanted) == CStr(buf, k) = wanted

\* lines 529-538: the key matches, a copy of the value is returned
ReturnValue ==
    /\ pc = "scanned"
    /\ ScanSucceeded(state)
    /\ KeyMatches(rowBuffer, key, keyToFind)
    /\ ret' = <<CStr(rowBuffer, value)>>
    /\ pc' = "returned"
    /\ UNCHANGED <<keyToFind, rowsRead, rowBuffer, bytesRead, lineRead,
                   linesRead, written, scanVars>>
    /\ UNCHANGED chunksSkipped
    /\ RowBufferIsUsed
    /\ rowBufferFrees' = RowBufferIsFreed(rowBufferFrees)
    /\ UNCHANGED <<fpVars, utilVars>>

\* line 544: the row was not the one looked for
NextRow ==
    /\ pc = "scanned"
    /\ ~(ScanSucceeded(state) /\ KeyMatches(rowBuffer, key, keyToFind))
    /\ rowsRead' = rowsRead + 1
    /\ rowBuffer' = <<NUL>>
    /\ bytesRead' = 0
    /\ lineRead' = <<>>
    /\ written' = {}
    /\ ScanLocalsReset
    /\ pc' = "read"
    /\ UNCHANGED <<keyToFind, linesRead, ret>>
    /\ UNCHANGED chunksSkipped
    /\ RowBufferIsUsed
    /\ UNCHANGED rowBufferFrees
    /\ UNCHANGED <<fpVars, utilVars>>

\* lines 334 and 550-551: the line limit is reached
GiveUp ==
    /\ pc = "read"
    /\ ~(rowsRead < CONFIG_MAX_LINE_COUNT)
    /\ ret' = <<>>
    /\ pc' = "returned"
    /\ UNCHANGED <<keyToFind, rowsRead, rowBuffer, bytesRead, lineRead,
                   linesRead, written, scanVars>>
    /\ UNCHANGED chunksSkipped
    /\ UNCHANGED usedAfterFree
    /\ rowBufferFrees' = RowBufferIsFreed(rowBufferFrees)
    /\ UNCHANGED <<fpVars, utilVars>>

Next ==
    \/ ReadNothing
    \/ SkipEmptyLine
    \/ SkipOverlongLine
    \/ SkipChunk
    \/ ReadLine
    \/ ScanChar
    \/ ScanExit
    \/ ReturnValue
    \/ NextRow
    \/ GiveUp

Spec == Init /\ [][Next]_vars

\* ======================================================== atoiFP
\* getExponent's answer for a character that is no multiplier (0x7fffffff)
NO_EXPONENT == 2147483647
\* getExponent's answer for a digit: 0xffffffff, which is -1 as an int32_t
DIGIT_EXPONENT == -1

isAsciiNumber(c) == c >= 48 /\ c <= 57

ctoi(c) == IF ~isAsciiNumber(c) THEN 0 ELSE c - 48

\* f p n u m c d . h k M G T P, in the order of the source
getExponent(c) ==
    CASE c = 102 -> -15
      [] c = 112 -> -12
      [] c = 110 -> -9
      [] c = 117 \/ c = 230 -> -6
      [] c = 109 -> -3
      [] c = 99  -> -2
      [] c = 100 -> -1
      [] c = 46  -> 0
      [] c = 104 -> 2
      [] c = 107 -> 3
      [] c = 77  -> 6
      [] c = 71  -> 9
      [] c = 84  -> 12
      [] c = 80  -> 15
      [] isAsciiNumber(c) -> DIGIT_EXPONENT
      [] OTHER -> NO_EXPONENT

ShiftedExponentTable ==
    <<1, 1, 10, 100, 1000, 10000, 100000, 1000000, 10000000, 100000000>>

\* exponentTable[n] = 10^n; the first entry is that of index 0
exponentTable ==
    <<1, 10, 100, 1000, 10000, 100000, 1000000, 10000000, 100000000,
      1000000000>>

INT32_MAX == 2147483647
INT32_MIN == -2147483647 - 1

\* x + y in int32_t as the target computes it (two's complement wrap-around),
\* written so that no intermediate value leaves the 32 bits
Add32(x, y) ==
    IF y > 0 /\ x > INT32_MAX - y
    THEN ((x - INT32_MAX) + (y - INT32_MAX)) - 2
    ELSE IF y < 0 /\ x < INT32_MIN - y
    THEN ((x + INT32_MAX) + (y + INT32_MAX)) + 2
    ELSE x + y

\* -x in int32_t
Neg32(x) == IF x = INT32_MIN THEN INT32_MIN ELSE -x

\* the value of the digits s starts with
RECURSIVE DigitsValue(_, _)
DigitsValue(s, acc) ==
    IF s = <<>> \/ ~isAsciiNumber(Head(s)) THEN acc
    ELSE DigitsValue(Tail(s), acc * 10 + ctoi(Head(s)))

\* the C library's atoi on the exponent buffer (a sign, then digits)
atoi(s) ==
    IF s # <<>> /\ Head(s) = MINUS THEN -DigitsValue(Tail(s), 0)
    ELSE IF s # <<>> /\ Head(s) = PLUS THEN DigitsValue(Tail(s), 0)
    ELSE DigitsValue(s, 0)

\* ------------------------------------------------------------ bounds
\* longest token of arbitrary characters
MaxTokenLen == 3
\* longest run of digits in a number with a multiplier
MaxDigits == 2
\* the base exponents are the multiples of 3 up to 3 * MaxBaseStep, and +-1
MaxBaseStep == 5
\* most digits of a written exponent
MaxExponentDigits == 1
\* most calls of atoiFP that have returned before another one is made
MaxEarlierCalls == 2
\* the integers up to MaxRoundTrip are formatted and parsed back
MaxRoundTrip == 120
\* largest mantissa and exponent of the formatted texts m 'e' e
MaxSciMantissa == 30
MaxSciExponent == 10

\* ------------------------------------------------------------ inputs
FpDigits == {DIGIT_0, DIGIT_0 + 1, DIGIT_0 + 5}

Multipliers == {102, 112, 110, 117, 109, 99, 100, 104, 107, 77, 71, 84, 80}

FpAlphabet == {DIGIT_0, DIGIT_0 + 1, DIGIT_0 + 5, DOT, MINUS, PLUS, SPACE,
               CHAR_e, CHAR_k, CHAR_s}

DigitStrings == StringsOf(FpDigits, 1, MaxDigits)

\* digits multiplier
MultiplierTokens == {n \o <<m>> : n \in DigitStrings, m \in Multipliers}

\* digits '.' digits [multiplier]
FractionTokens ==
    {n \o <<DOT>> \o f \o m :
        n \in DigitStrings, f \in DigitStrings,
        m \in {<<>>} \cup {<<x>> : x \in Multipliers}}

\* digits [. digit] e|E [-] [digits]: a number with a written exponent, the
\* exponent's digits possibly missing
ExponentTokens ==
    {n \o f \o <<e>> \o sign \o x :
        n \in DigitStrings,
        f \in {<<>>} \cup {<<DOT, d>> : d \in FpDigits},
        e \in {CHAR_e, CHAR_E},
        sign \in {<<>>, <<MINUS>>},
        x \in StringsOf(FpDigits, 0, MaxExponentDigits)}

\* digits e|E + digits, and the tokens "1e3", "1e+3" and "1000e-3"
PlusExponentTokens ==
    {n \o <<e, PLUS>> \o x :
        n \in DigitStrings, e \in {CHAR_e, CHAR_E},
        x \in StringsOf(FpDigits, 1, MaxExponentDigits)}
    \cup {<<DIGIT_0 + 1, CHAR_e, DIGIT_0 + 3>>,
          <<DIGIT_0 + 1, CHAR_e, PLUS, DIGIT_0 + 3>>,
          <<DIGIT_0 + 1, DIGIT_0, DIGIT_0, DIGIT_0, CHAR_e, MINUS, DIGIT_0 + 3>>}

\* digits multiplier digit
MultiplierFractionTokens ==
    {n \o <<m>> \o f :
        n \in DigitStrings, m \in Multipliers, f \in StringsOf(FpDigits, 1, 1)}

\* the decimal text of n >= 0, as a caller formats an integer
RECURSIVE Format(_)
Format(n) ==
    IF n < 10 THEN <<DIGIT_0 + n>>
    ELSE Format(n \div 10) \o <<DIGIT_0 + (n % 10)>>

\* the integers that are formatted and parsed back: the small ones and the
\* ones next to the ends of the decimal positions and of the int32_t range
RoundTripNumbers ==
    (0..MaxRoundTrip)
    \cup {999999999, 1000000000, 1999999999, 2000000000, 2147483639,
          2147483640, INT32_MAX - 1, INT32_MAX}

\* n and -n as text
IntegerTokens ==
    {sign \o Format(n) : sign \in {<<>>, <<MINUS>>}, n \in RoundTripNumbers}

\* m 'e' e as text
ScientificTokens ==
    {Format(m) \o <<CHAR_e>> \o Format(x) :
        m \in 0..MaxSciMantissa, x \in 0..MaxSciExponent}

\* the text of a sequence of digit values
TextOfDigits(ds) == [i \in 1..Len(ds) |-> DIGIT_0 + ds[i]]

\* digit strings whose value is beyond 2147483647, and one of eleven digits
\* whose value is 1
LongDigitStrings ==
    {TextOfDigits(<<2, 1, 4, 7, 4, 8, 3, 6, 4, 8>>),
     TextOfDigits(<<2, 1, 4, 7, 4, 8, 3, 6, 5, 0>>),
     TextOfDigits(<<2, 9, 9, 9, 9, 9, 9, 9, 9, 9>>),
     TextOfDigits(<<3, 0, 0, 0, 0, 0, 0, 0, 0, 0>>),
     TextOfDigits(<<4, 2, 9, 4, 9, 6, 7, 2, 9, 6>>),
     TextOfDigits(<<0, 0, 0, 0, 0, 0, 0, 0, 0, 0, 1>>)}

LongTokens ==
    {sign \o t : sign \in {<<>>, <<MINUS>>}, t \in LongDigitStrings}

\* digits [. digit] followed by a unit of one or two letters
UnitTokens ==
    {n \o f \o u :
        n \in DigitStrings,
        f \in {<<>>} \cup {<<DOT, d>> : d \in FpDigits},
        u \in {<<CHAR_s>>, <<CHAR_s, CHAR_s>>}}

\* - digits '.' digits
NegativeFractionTokens ==
    {<<MINUS>> \o n \o <<DOT>> \o f : n \in DigitStrings, f \in DigitStrings}

BaseExponents == {3 * b : b \in (-MaxBaseStep)..MaxBaseStep} \cup {-1, 1}

\* the calls of atoiFP: numbers with multipliers at every base exponent, with
\* no length bound and with the token's length as the bound, and arbitrary
\* short tokens with every length bound and both values of ignoreUnit, and
\* numbers with a written exponent, formatted integers and long digit strings
Calls ==
    UNION {[a : {t}, strlen : {0, Len(t)}, baseExponent : BaseExponents,
            ignoreUnit : {0}] :
              t \in MultiplierTokens \cup FractionTokens
                       \cup MultiplierFractionTokens}
    \cup
    UNION {[a : {t}, strlen : 0..Len(t), baseExponent : {-1, 0, 1},
            ignoreUnit : {0, 1}] : t \in StringsOf(FpAlphabet, 0, MaxTokenLen)}
    \cup
    UNION {[a : {t}, strlen : {0, Len(t)}, baseExponent : {-1, 0, 1},
            ignoreUnit : {0, 1}] :
              t \in ExponentTokens \cup UnitTokens \cup PlusExponentTokens}
    \cup
    UNION {[a : {t}, strlen : {0, Len(t)}, baseExponent : {-1, 0, 1},
            ignoreUnit : {0}] :
              t \in IntegerTokens \cup ScientificTokens \cup LongTokens
                       \cup NegativeFractionTokens}

StaticSign ==
    [state |-> "waitStart", exp |-> 0, negative |-> isNumberNegative,
     dot |-> FALSE, break |-> FALSE, start |-> NULL, startExp |-> NULL,
     ret |-> 0]

\* the locals as their declarations initialise them in every call
LocalsAtEntry ==
    [state |-> "waitStart", exp |-> 0, negative |-> FALSE, dot |-> FALSE,
     break |-> FALSE, start |-> NULL, startExp |-> NULL, ret |-> 0]

\* atoiFP(a, strlen, baseExponent, ignoreUnit) is entered with one of calls
EnterAtoi(calls) ==
    /\ \E call \in calls :
          /\ token' = call.a \o <<NUL>>
          /\ strlen' = call.strlen
          /\ strlenPassed' = call.strlen
          /\ checkForLength' = (call.strlen > 0)
          /\ baseExponent' = call.baseExponent
          /\ ignoreUnit' = call.ignoreUnit
    /\ a' = 0
    /\ fpState' = LocalsAtEntry.state
    /\ currentNumberPositionExponent' = LocalsAtEntry.exp
    /\ isNumberNegative' = LocalsAtEntry.negative
    /\ isExponentADot' = LocalsAtEntry.dot
    /\ breakBit' = LocalsAtEntry.break
    /\ startOfNumber' = LocalsAtEntry.start
    /\ startOfNumberExponent' = LocalsAtEntry.startExp
    /\ fpRet' = LocalsAtEntry.ret
    /\ fpResult' = <<>>
    /\ fpReads' = {}
    /\ fpPc' = "loop"

\* one call of atoiFP
AtoiCall ==
    /\ fpPc = "idle"
    /\ EnterAtoi(Calls)
    /\ UNCHANGED finished
    /\ UNCHANGED <<cfgVars, utilVars>>

\* the call that has returned, as the caller saw it
ReturnedCall ==
    [a |-> token, strlen |-> strlenPassed, baseExponent |-> baseExponent,
     ignoreUnit |-> ignoreUnit, result |-> fpResult]

\* the calls of a caller that calls atoiFP again and again
RepeatedCalls ==
    UNION {[a : {t}, strlen : {0, Len(t)}, baseExponent : {0, 1},
            ignoreUnit : {0}] :
              t \in {<<DIGIT_0 + 1>>,
                     <<MINUS, DIGIT_0 + 1>>,
                     <<MINUS, DIGIT_0 + 1, DOT, DIGIT_0 + 5>>,
                     <<DIGIT_0 + 1, CHAR_k, DIGIT_0 + 5>>,
                     <<DIGIT_0 + 1, CHAR_e, DIGIT_0 + 1>>}}

\* atoiFP is called, the first time or after an earlier call has returned
AtoiCallAgain ==
    /\ fpPc \in {"idle", "done"}
    /\ Cardinality(finished) < MaxEarlierCalls \/ fpPc = "idle"
    /\ EnterAtoi(RepeatedCalls)
    /\ finished' = IF fpPc = "done" THEN finished \cup {ReturnedCall}
                   ELSE finished
    /\ UNCHANGED <<cfgVars, utilVars>>

\* the loop condition together with the length check that opens the body
ScanContinues ==
    /\ At(token, a) # NUL
    /\ ~breakBit
    /\ ~(checkForLength /\ strlen = 0)

IsCharE(c) == c = CHAR_e \/ c = CHAR_E

\* the character after an 'e' that makes it the start of an exponent string
StartsExponentString(c) == c = MINUS \/ isAsciiNumber(c)

\* the locals as they are when atoiFP looks at the character at a
FpLocals ==
    [state |-> fpState, exp |-> currentNumberPositionExponent,
     negative |-> isNumberNegative, dot |-> isExponentADot, break |-> FALSE,
     start |-> startOfNumber, startExp |-> startOfNumberExponent,
     fail |-> FALSE, lookahead |-> FALSE]

MinusMakesNegative(negative) == TRUE

\* isNumberNegative = !isNumberNegative
InvertedSign(negative) == ~negative

SkipsAnyLeadingCharacter(l, c) ==
    IF isAsciiNumber(c)
    THEN [l EXCEPT !.start = a, !.state = "waitMultiplier"]
    ELSE l

waitStart(l, c) ==
    IF c = SPACE THEN l
    ELSE IF isAsciiNumber(c)
         THEN [l EXCEPT !.start = a, !.state = "waitMultiplier"]
    ELSE IF c = DOT
         THEN [l EXCEPT !.start = a, !.exp = 0, !.state = "waitEnd",
                        !.dot = TRUE]
    ELSE IF c = MINUS THEN [l EXCEPT !.negative = InvertedSign(l.negative)]
    ELSE IF c # PLUS THEN [l EXCEPT !.fail = TRUE]
    ELSE l

\* remaining is strlen after the decrement of this iteration
waitMultiplier(l, c, remaining) ==
    IF getExponent(c) = NO_EXPONENT
    THEN IF IsCharE(c) /\ (~checkForLength \/ remaining # 0)
         THEN IF At(token, a + 1) # NUL
                 /\ StartsExponentString(At(token, a + 1))
              THEN [l EXCEPT !.startExp = a + 1, !.state = "waitE_Exponent",
                             !.lookahead = TRUE]
              ELSE [l EXCEPT !.break = TRUE, !.lookahead = TRUE]
         ELSE [l EXCEPT !.break = TRUE]
    ELSE IF getExponent(c) # DIGIT_EXPONENT
         THEN [l EXCEPT !.exp = getExponent(c), !.state = "waitEnd",
                        !.dot = IF getExponent(c) = 0 THEN TRUE ELSE l.dot]
    ELSE l

FractionDigitKeepsPosition(position) == position

\* a digit after the point: the position of the digits goes down by one
FractionDigit(position) == position - 1

FinalizesAfterMultiplier(l) ==
    IF l.dot THEN [l EXCEPT !.exp = FractionDigit(l.exp)]
    ELSE [l EXCEPT !.break = TRUE]

\* a digit in waitEnd, after a point and after a multiplier alike
DigitInWaitEnd(l) == [l EXCEPT !.exp = FractionDigit(l.exp)]

waitEnd(l, c, remaining) ==
    IF ~isAsciiNumber(c)
    THEN IF l.dot
         THEN IF IsCharE(c) /\ remaining # 0
              THEN IF StartsExponentString(At(token, a + 1))
                   THEN [l EXCEPT !.startExp = a + 1,
                                  !.state = "waitE_Exponent",
                                  !.lookahead = TRUE]
                   ELSE [l EXCEPT !.break = TRUE, !.lookahead = TRUE]
              ELSE IF getExponent(c) # NO_EXPONENT
                   THEN [l EXCEPT !.exp = l.exp + getExponent(c),
                                  !.break = TRUE]
              ELSE IF ignoreUnit = 0 THEN [l EXCEPT !.fail = TRUE]
              ELSE [l EXCEPT !.break = TRUE]
         ELSE IF ignoreUnit = 0 THEN [l EXCEPT !.fail = TRUE]
         ELSE [l EXCEPT !.break = TRUE]
    ELSE DigitInWaitEnd(l)

waitE_Exponent(l, c) ==
    IF ~isAsciiNumber(c) /\ ~((c = MINUS \/ c = PLUS) /\ a = l.startExp)
    THEN [l EXCEPT !.break = TRUE]
    ELSE l

\* the switch on the state
ScanStep(l, c, remaining) ==
    CASE l.state = "waitStart" -> waitStart(l, c)
      [] l.state = "waitMultiplier" -> waitMultiplier(l, c, remaining)
      [] l.state = "waitEnd" -> waitEnd(l, c, remaining)
      [] l.state = "waitE_Exponent" -> waitE_Exponent(l, c)

\* one iteration of the scanning loop
AtoiChar ==
    /\ fpPc = "loop"
    /\ ScanContinues
    /\ LET remaining == IF checkForLength THEN strlen - 1 ELSE strlen
           l == ScanStep(FpLocals, At(token, a), remaining)
       IN  /\ strlen' = remaining
           /\ fpState' = l.state
           /\ currentNumberPositionExponent' = l.exp
           /\ isNumberNegative' = l.negative
           /\ isExponentADot' = l.dot
           /\ breakBit' = l.break
           /\ startOfNumber' = l.start
           /\ startOfNumberExponent' = l.startExp
           /\ fpReads' = fpReads \cup {a}
                            \cup (IF l.lookahead THEN {a + 1} ELSE {})
           /\ a' = IF l.break \/ l.fail THEN a ELSE a + 1
           /\ fpPc' = IF l.fail THEN "done" ELSE "loop"
           /\ fpResult' = IF l.fail THEN <<0>> ELSE fpResult
    /\ UNCHANGED <<token, baseExponent, ignoreUnit, checkForLength, fpRet,
                   strlenPassed,
                   finished>>
    /\ UNCHANGED <<cfgVars, utilVars>>

\* 0 - 1 in uint32_t is 0xffffffff; it is kept as the int32_t of the same
\* bits, and strlen is not read again after the break that produces it
UINT32_MINUS_1 == -1

\* the exponent string is copied only if it has at most 10 characters
ExponentStringFits == a - startOfNumberExponent <= 10

\* the text between the 'e' and the character the scan stopped at
ExponentString == SubSeq(token, startOfNumberExponent + 1, a)

\* the loop has ended: the exponent string, the missing number, the base
AtoiLoopEnd ==
    /\ fpPc = "loop"
    /\ ~ScanContinues
    /\ fpReads' = fpReads \cup {a}
    /\ strlen' = IF At(token, a) # NUL /\ ~breakBit THEN UINT32_MINUS_1
                 ELSE strlen
    /\ IF fpState = "waitE_Exponent" /\ ~ExponentStringFits
       THEN /\ fpPc' = "done"
            /\ fpResult' = <<0>>
            /\ UNCHANGED <<a, currentNumberPositionExponent>>
       ELSE LET exp == IF fpState = "waitE_Exponent"
                       THEN currentNumberPositionExponent
                               + atoi(ExponentString)
                       ELSE currentNumberPositionExponent
            IN  /\ a' = IF fpState = "waitE_Exponent"
                        THEN startOfNumberExponent - 1 ELSE a
                /\ IF startOfNumber = NULL
                   THEN /\ fpPc' = "done"
                        /\ fpResult' = <<0>>
                        /\ currentNumberPositionExponent' = exp
                   ELSE /\ fpPc' = "walk"
                        /\ fpResult' = fpResult
                        /\ currentNumberPositionExponent' = exp + baseExponent
    /\ UNCHANGED <<token, baseExponent, ignoreUnit, checkForLength, fpState,
                   isNumberNegative, isExponentADot, breakBit, startOfNumber,
                   startOfNumberExponent, fpRet, strlenPassed,
                   finished>>
    /\ UNCHANGED <<cfgVars, utilVars>>

\* *--a is read before a is compared with the start of the number; one byte
\* before the token nothing is known about the value read, and the comparison
\* ends the walk whatever it is
WalkContinues ==
    /\ a - 1 >= 0
    /\ At(token, a - 1) # NUL
    /\ a - 1 >= startOfNumber

OverflowsFromPosition9(digit, position) == position >= 9

\* a digit at position 9 may be at most 2, and there is no position 10
DigitOverflows(digit, position) ==
    position >= 10 \/ (position = 9 /\ digit > 2)

\* one step backwards through the number
AtoiWalk ==
    /\ fpPc = "walk"
    /\ WalkContinues
    /\ a' = a - 1
    /\ fpReads' = fpReads \cup {a - 1}
    /\ LET c == At(token, a - 1)
           position == currentNumberPositionExponent
       IN  IF ~isAsciiNumber(c)
           THEN UNCHANGED <<fpPc, fpResult, fpRet,
                            currentNumberPositionExponent>>
           ELSE IF position >= 0 /\ DigitOverflows(ctoi(c), position)
           THEN /\ fpPc' = "done"
                /\ fpResult' = <<0>>
                /\ UNCHANGED <<fpRet, currentNumberPositionExponent>>
           ELSE /\ fpRet' = IF position >= 0
                            THEN Add32(fpRet, ctoi(c)
                                          * exponentTable[position + 1])
                            ELSE fpRet
                /\ currentNumberPositionExponent' = position + 1
                /\ UNCHANGED <<fpPc, fpResult>>
    /\ UNCHANGED <<token, strlen, baseExponent, ignoreUnit, checkForLength,
                   fpState, isNumberNegative, isExponentADot, breakBit,
                   startOfNumber, startOfNumberExponent, strlenPassed,
                   finished>>
    /\ UNCHANGED <<cfgVars, utilVars>>

\* the walk has passed the start of the number: the sign
AtoiReturn ==
    /\ fpPc = "walk"
    /\ ~WalkContinues
    /\ a' = a - 1
    /\ fpReads' = fpReads \cup {a - 1}
    /\ fpResult' = <<IF isNumberNegative THEN Neg32(fpRet) ELSE fpRet>>
    /\ fpPc' = "done"
    /\ UNCHANGED <<token, strlen, baseExponent, ignoreUnit, checkForLength,
                   fpState, currentNumberPositionExponent, isNumberNegative,
                   isExponentADot, breakBit, startOfNumber,
                   startOfNumberExponent, fpRet, strlenPassed,
                   finished>>
    /\ UNCHANGED <<cfgVars, utilVars>>

NextAtoi == AtoiCall \/ AtoiChar \/ AtoiLoopEnd \/ AtoiWalk \/ AtoiReturn

SpecAtoi == Init /\ [][NextAtoi]_vars

\* the calls with a length bound of at least 1, also one shorter than the token
BoundedCalls ==
    UNION {[a : {t}, strlen : 1..Len(t), baseExponent : {0},
            ignoreUnit : {0, 1}] :
              t \in StringsOf(FpAlphabet, 1, MaxTokenLen) \cup ExponentTokens}

\* the call that has returned, repeated with the token cut at the length bound
CutCall ==
    [a |-> SubSeq(token, 1, strlenPassed), strlen |-> strlenPassed,
     baseExponent |-> baseExponent, ignoreUnit |-> ignoreUnit]

\* a caller converts a token with a length bound, then a copy of the token
\* that ends where the bound is
AtoiCallBounded ==
    /\ fpPc \in {"idle", "done"}
    /\ finished = {}
    /\ IF fpPc = "idle" THEN EnterAtoi(BoundedCalls) ELSE EnterAtoi({CutCall})
    /\ finished' = IF fpPc = "done" THEN {ReturnedCall} ELSE finished
    /\ UNCHANGED <<cfgVars, utilVars>>

NextAtoiBounded ==
    AtoiCallBounded \/ AtoiChar \/ AtoiLoopEnd \/ AtoiWalk \/ AtoiReturn

SpecAtoiBounded == Init /\ [][NextAtoiBounded]_vars

\* a caller that calls atoiFP several times in a row
NextAtoiRepeated ==
    AtoiCallAgain \/ AtoiChar \/ AtoiLoopEnd \/ AtoiWalk \/ AtoiReturn

SpecAtoiRepeated == Init /\ [][NextAtoiRepeated]_vars

\* ======================================================== bits
\* util_bitMasks[i] = 1 << i; the last entry, 0x80000000, is beyond the
\* integers of the model checker and is never indexed, a bit offset is below 8
util_bitMasks == [i \in 1..31 |-> 2 ^ (i - 1)]

\* x & mask for a mask of one bit
AndMask(x, mask) == IF (x \div mask) % 2 = 1 THEN mask ELSE 0

\* x | mask
OrMask(x, mask) == x + mask - AndMask(x, mask)

\* x & ~mask
AndNotMask(x, mask) == x - AndMask(x, mask)

byteOffset(bitNumber) == bitNumber \div 8

bitOffset(bitNumber) == bitNumber - byteOffset(bitNumber) * 8

getBit(d, bitNumber) ==
    IF AndMask(At(d, byteOffset(bitNumber)),
               util_bitMasks[bitOffset(bitNumber) + 1]) > 1
    THEN 1 ELSE 0

\* the byte array after setBit(data, bitNumber, newValue)
setBit(d, bitNumber, newValue) ==
    LET mask == util_bitMasks[bitOffset(bitNumber) + 1]
        byte == At(d, byteOffset(bitNumber))
    IN  Put(d, byteOffset(bitNumber),
            IF newValue # 0 THEN OrMask(byte, mask) ELSE AndNotMask(byte, mask))

\* a caller sets a bit
SetBit ==
    \E n \in BitNumbers, newValue \in {0, 1, 2} :
        /\ data' = setBit(data, n, newValue)
        /\ lastSet' = [lastSet EXCEPT ![n] = newValue]
        /\ UNCHANGED <<cfgVars, fpVars, sinVars, pwlVars>>

NextBits == SetBit

SpecBits == Init /\ [][NextBits]_vars

\* ======================================================== qSin
\* largest magnitude of an argument of qSin
MaxAngle == 1100

Angles == (-MaxAngle)..MaxAngle

sineTable == <<
    0, 6135, 12270, 18403, 24533, 30660, 36782, 42898, 49008, 55111,
    61205, 67290, 73365, 79429, 85480, 91519, 97545, 103555, 109550,
    115529, 121490, 127432, 133356, 139259, 145142, 151002, 156840,
    162655, 168444, 174209, 179947, 185658, 191341, 196996, 202620,
    208214, 213777, 219308, 224805, 230269, 235698, 241091, 246449,
    251769, 257051, 262294, 267498, 272662, 277785, 282865, 287904,
    292898, 297849, 302755, 307615, 312429, 317196, 321915, 326586,
    331207, 335779, 340300, 344770, 349188, 353553, 357865, 362123,
    366327, 370475, 374568, 378604, 382583, 386505, 390368, 394173,
    397918, 401603, 405228, 408792, 412294, 415734, 419112, 422426,
    425677, 428864, 431986, 435043, 438035, 440960, 443819, 446612,
    449337, 451994, 454583, 457104, 459556, 461939, 464253, 466496,
    468669, 470772, 472803, 474764, 476653, 478470, 480215, 481888,
    483488, 485015, 486469, 487851, 489158, 490392, 491552, 492638,
    493650, 494588, 495451, 496239, 496953, 497592, 498156, 498645,
    499059, 499397, 499661, 499849, 499962, 500000, 499962, 499849,
    499661, 499397, 499059, 498645, 498156, 497592, 496953, 496239,
    495451, 494588, 493650, 492638, 491552, 490392, 489158, 487851,
    486469, 485015, 483488, 481888, 480215, 478470, 476653, 474764,
    472803, 470772, 468669, 466496, 464253, 461939, 459556, 457104,
    454583, 451994, 449337, 446612, 443819, 440960, 438035, 435043,
    431986, 428864, 425677, 422426, 419112, 415734, 412294, 408792,
    405228, 401603, 397918, 394173, 390368, 386505, 382583, 378604,
    374568, 370475, 366327, 362123, 357865, 353553, 349188, 344770,
    340300, 335779, 331207, 326586, 321915, 317196, 312429, 307615,
    302755, 297849, 292898, 287904, 282865, 277785, 272662, 267498,
    262294, 257051, 251769, 246449, 241091, 235698, 230269, 224805,
    219308, 213777, 208214, 202620, 196996, 191341, 185658, 179947,
    174209, 168444, 162655, 156840, 151002, 145142, 139259, 133356,
    127432, 121490, 115529, 109550, 103555, 97545, 91519, 85480, 79429,
    73365, 67290, 61205, 55111, 49008, 42898, 36782, 30660, 24533,
    18403, 12270, 6135>>

abs(x) == IF x < 0 THEN -x ELSE x

\* int32_t xt = abs(x) % 0xff
xt(x) == abs(x) % 255

qSin(x) ==
    IF xt(x) = 0 THEN 0
    ELSE IF x > 0 THEN sineTable[xt(x) + 1] ELSE -sineTable[xt(x) + 1]

\* one call of qSin
QSin ==
    \E x \in Angles :
        /\ sinX' = x
        /\ sinIndex' = xt(x)
        /\ sinResult' = <<qSin(x)>>
        /\ UNCHANGED <<cfgVars, fpVars, bitVars, pwlVars>>

NextSin == QSin

SpecSin == Init /\ [][NextSin]_vars

\* ======================================================== PWL_getY
\* x values of the rows are 0..MaxPwlX, a table has at most MaxPwlRows rows
MaxPwlX == 3
MaxPwlRows == 3

\* 2^23: a difference of y values that no longer fits once multiplied by 256
LargePwlY == 8388608

PwlXs == 0..MaxPwlX
PwlYs == {-5, -1, 0, 3, LargePwlY}
PwlDerivatives == {-1, 2}
PwlQueries == (-1)..(MaxPwlX + 1)

\* x - y in int32_t
Sub32(x, y) ==
    IF y = INT32_MIN THEN Add32(Add32(x, INT32_MAX), 1) ELSE Add32(x, -y)

\* x * y in int32_t: the product wraps around in the 32 bits, which is what
\* the compiled source does when the signed multiplication overflows
RECURSIVE Mul32(_, _)
Mul32(x, y) ==
    IF y = 0 THEN 0
    ELSE IF y = INT32_MIN THEN (IF x % 2 = 0 THEN 0 ELSE INT32_MIN)
    ELSE IF y < 0 THEN Neg32(Mul32(x, -y))
    ELSE Add32(IF y % 2 = 1 THEN x ELSE 0, Mul32(Add32(x, x), y \div 2))

\* x / y in C, rounding towards zero, for y # 0
Div32(x, y) ==
    IF y < 0 THEN Neg32(IF x % (-y) = 0 THEN x \div (-y)
                        ELSE IF x < 0 THEN (x \div (-y)) + 1 ELSE x \div (-y))
    ELSE IF x < 0 /\ x % y # 0 THEN (x \div y) + 1 ELSE x \div y

\* x >> 8 of a signed value
Shr8(x) == x \div 256

\* number of int32_t in a row
RowSize(p) == IF p.preComputedDerivative # 0 THEN 3 ELSE 2

\* row[k] for the row pointer (pwl->data) + entry * RowSize
RowAt(p, entry, k) == p.data[entry * RowSize(p) + k + 1]

\* the loop over the rows from entry on: either the function returns in the
\* loop, or the loop is left with lastRow, currentRow and entry
RECURSIVE FindRows(_, _, _, _)
FindRows(x, p, entry, lastRow) ==
    IF entry >= p.listSizeRows
    THEN [returned |-> FALSE, value |-> 0,
          lastRow |-> lastRow, currentRow |-> entry - 1, entry |-> entry]
    ELSE IF RowAt(p, entry, 0) = x
    THEN [returned |-> TRUE, value |-> RowAt(p, entry, 1),
          lastRow |-> lastRow, currentRow |-> entry, entry |-> entry]
    ELSE IF RowAt(p, entry, 0) > x
    THEN IF lastRow = NULL
         THEN IF entry + 1 >= p.listSizeRows
              THEN [returned |-> TRUE, value |-> 0,
                    lastRow |-> lastRow, currentRow |-> entry, entry |-> entry]
              ELSE [returned |-> FALSE, value |-> 0,
                    lastRow |-> entry, currentRow |-> entry + 1, entry |-> entry]
         ELSE [returned |-> FALSE, value |-> 0,
               lastRow |-> lastRow, currentRow |-> entry, entry |-> entry]
    ELSE FindRows(x, p, entry + 1, entry)

\* the linear function through lastRow and currentRow at x
Interpolate(x, p, lastRow, currentRow) ==
    LET localX == Sub32(x, RowAt(p, lastRow, 0))
        localY == RowAt(p, lastRow, 1)
        dy == Mul32(Sub32(RowAt(p, currentRow, 1), RowAt(p, lastRow, 1)),
                    IF p.preciceDerivative # 0 THEN 256 ELSE 1)
        dx == Sub32(RowAt(p, currentRow, 0), RowAt(p, lastRow, 0))
        dYdX == IF p.preComputedDerivative # 0 THEN RowAt(p, lastRow, 2)
                ELSE IF dx # 0 THEN Div32(dy, dx) ELSE 0
    IN  Add32(IF p.preciceDerivative # 0 THEN Shr8(Mul32(dYdX, localX))
              ELSE Mul32(dYdX, localX),
              localY)

\* the value PWL_getY returns and the rows it interpolated between
PWL_getY(x, ptr) ==
    IF ptr = <<>> THEN [value |-> 0, rows |-> <<>>]
    ELSE IF ptr[1].listSizeRows < 2 THEN [value |-> 0, rows |-> <<>>]
    ELSE LET p == ptr[1]
             found == FindRows(x, p, 0, NULL)
         IN  IF found.returned THEN [value |-> found.value, rows |-> <<>>]
             ELSE IF found.lastRow = found.currentRow /\ found.entry - 2 < 0
             THEN [value |-> 0, rows |-> <<>>]
             ELSE LET lastRow == IF found.lastRow = found.currentRow
                                 THEN found.entry - 2 ELSE found.lastRow
                  IN  [value |-> Interpolate(x, p, lastRow, found.currentRow),
                       rows |-> <<lastRow, found.currentRow>>]

\* the tables of n rows sorted by strictly ascending x
PwlTables(n) ==
    {[listSizeRows |-> n,
      preComputedDerivative |-> pre,
      preciceDerivative |-> precise,
      data |-> [i \in 1..(n * (IF pre # 0 THEN 3 ELSE 2)) |->
                   LET size == IF pre # 0 THEN 3 ELSE 2
                       row == ((i - 1) \div size) + 1
                       k == (i - 1) % size
                   IN  IF k = 0 THEN xs[row]
                       ELSE IF k = 1 THEN ys[row] ELSE ds[row]]] :
        pre \in {0, 1}, precise \in {0, 1},
        xs \in {f \in [1..n -> PwlXs] : \A i \in 1..(n - 1) : f[i] < f[i + 1]},
        ys \in [1..n -> PwlYs], ds \in [1..n -> PwlDerivatives]}

\* a table pointer or NULL
PwlPointers(n) == {<<p>> : p \in PwlTables(n)} \cup {<<>>}

\* the call of PWL_getY; the function keeps no state, one call from the
\* initial state stands for every call
PwlGetY ==
    /\ pwlResult = <<>>
    /\ \E x \in PwlQueries, n \in 0..MaxPwlRows :
        \E p \in PwlPointers(n) :
            /\ pwl' = p
            /\ pwlX' = x
            /\ pwlRows' = PWL_getY(x, p).rows
            /\ pwlResult' = <<PWL_getY(x, p).value>>
            /\ UNCHANGED <<cfgVars, fpVars, bitVars, sinVars>>

NextPwl == PwlGetY

SpecPwl == Init /\ [][NextPwl]_vars

\* ------------------------------------------------- describing a line of text
\* (what the claims say about a line, written without the scan's variables)
Min(S) == CHOOSE i \in S : \A j \in S : i <= j

Max(S) == CHOOSE i \in S : \A j \in S : i >= j

\* positions are those of the sequence, the first character is at 1
PositionsOf(t, chars) == {i \in 1..Len(t) : t[i] \in chars}

NonBlankPositions(t, lo, hi) == {i \in lo..hi : ~IsBlank(t[i])}

\* positions of the first slash of each "//"
CommentPositions(t) ==
    {i \in 1..(Len(t) - 1) : t[i] = SLASH /\ t[i + 1] = SLASH}

HasNoNul(t) == PositionsOf(t, {NUL}) = {}

\* the text of a line: the line without the line feed that ends it
LineText(t) ==
    IF Len(t) > 0 /\ t[Len(t)] = LF THEN SubSeq(t, 1, Len(t) - 1) ELSE t

\* t without the spaces at its two ends (t holds a character that is no space)
TrimSpaces(t) ==
    LET S == {i \in 1..Len(t) : t[i] # SPACE} IN SubSeq(t, Min(S), Max(S))

\* [spaces] key [spaces] '=' [spaces] value [spaces]
IsKeyValueText(t) ==
    /\ HasNoNul(t)
    /\ PositionsOf(t, {EQUALS}) # {}
    /\ CommentPositions(t) = {}
    /\ LET e == Min(PositionsOf(t, {EQUALS}))
           k == SubSeq(t, 1, e - 1)
           v == SubSeq(t, e + 1, Len(t))
       IN  /\ PositionsOf(k, {SPACE}) # 1..Len(k)
           /\ PositionsOf(v, {SPACE}) # 1..Len(v)
           /\ \A i \in 1..Len(TrimSpaces(k)) : ~IsBlank(TrimSpaces(k)[i])
           /\ ~IsBlank(TrimSpaces(v)[1])
           /\ ~IsBlank(TrimSpaces(v)[Len(TrimSpaces(v))])

KeyOfText(t) == TrimSpaces(SubSeq(t, 1, Min(PositionsOf(t, {EQUALS})) - 1))

ValueOfText(t) ==
    TrimSpaces(SubSeq(t, Min(PositionsOf(t, {EQUALS})) + 1, Len(t)))

\* the line has a key (a character that is neither blank nor '=') and then '='
HasKeyAndEquals(t) ==
    /\ PositionsOf(t, {EQUALS}) # {}
    /\ NonBlankPositions(t, 1, Min(PositionsOf(t, {EQUALS})) - 1) # {}

FirstEquals(t) == Min(PositionsOf(t, {EQUALS}))

\* the results of the scan of the current line
ScannedKey == CStr(rowBuffer, key)

ScannedValue == CStr(rowBuffer, value)

Yields(k, v) == ScanSucceeded(state) /\ ScannedKey = k /\ ScannedValue = v

\* ------------------------------------------------------------ the claims
\* C1: for every line [spaces] key [spaces] '=' [spaces] value [spaces] the
\* scan yields exactly that key and exactly that value.
C1_KeyValueLineYieldsKeyAndValue ==
    (pc = "scanned" /\ IsKeyValueText(LineText(lineRead)))
        => Yields(KeyOfText(LineText(lineRead)), ValueOfText(LineText(lineRead)))

\* C2: when "//" appears after the value has started the scan succeeds and
\* the value runs from the first non-blank character after '=' to the last
\* non-blank character before the "//".
C2_CommentAfterValueIsCut ==
    LET t == lineRead IN
    (/\ pc = "scanned"
     /\ HasNoNul(t)
     /\ HasKeyAndEquals(t)
     /\ CommentPositions(t) # {}
     /\ NonBlankPositions(t, FirstEquals(t) + 1, Min(CommentPositions(t)) - 1) # {})
        => LET S == NonBlankPositions(t, FirstEquals(t) + 1,
                                      Min(CommentPositions(t)) - 1)
           IN  /\ ScanSucceeded(state)
               /\ ScannedValue = SubSeq(t, Min(S), Max(S))

\* the same, for a "//" whose two slashes both lie in the scanned part of the
\* line (the second slash is not the last character of the line)
C2_ScannedCommentAfterValueIsCut ==
    LET t == lineRead IN
    (/\ pc = "scanned"
     /\ HasNoNul(t)
     /\ HasKeyAndEquals(t)
     /\ CommentPositions(t) # {}
     /\ Min(CommentPositions(t)) + 1 < Len(t)
     /\ NonBlankPositions(t, FirstEquals(t) + 1, Min(CommentPositions(t)) - 1) # {})
        => LET S == NonBlankPositions(t, FirstEquals(t) + 1,
                                      Min(CommentPositions(t)) - 1)
           IN  /\ ScanSucceeded(state)
               /\ ScannedValue = SubSeq(t, Min(S), Max(S))

\* "//" is the first non-blank text after the first '=' of a line with a key
CommentIsWholeValue(t) ==
    /\ HasNoNul(t)
    /\ HasKeyAndEquals(t)
    /\ CommentPositions(t) # {}
    /\ FirstEquals(t) < Min(CommentPositions(t))
    /\ NonBlankPositions(t, FirstEquals(t) + 1, Min(CommentPositions(t)) - 1) = {}

\* C3: when "//" is the first non-blank text after '=' the line produces no
\* pair: the value is not found, the scan does not end in value_findEnd and
\* no match is returned from that line.
C3_CommentInsteadOfValueYieldsNoPair ==
    /\ (pc = "scanned" /\ CommentIsWholeValue(lineRead))
          => (~ScanSucceeded(state) /\ value = NULL)
    /\ (pc = "returned" /\ CommentIsWholeValue(lineRead)) => ret = <<>>

\* no '=' anywhere in the line
HasNoEquals(t) == PositionsOf(t, {EQUALS}) = {}

\* everything after the first '=' of the line is blank
OnlyBlanksAfterEquals(t) ==
    /\ PositionsOf(t, {EQUALS}) # {}
    /\ NonBlankPositions(t, FirstEquals(t) + 1, Len(t)) = {}

\* C4: only a scan that ends in value_findEnd yields a pair; a line without
\* '=' and a line that ends before any value character yield none, and
\* CONFIG_getKey goes on to the next line.
C4_PairOnlyFromValueFindEnd ==
    [][ /\ (pc' = "returned" /\ ret' # <<>>) => state = "value_findEnd"
        /\ (pc = "scanned" /\ state # "value_findEnd")
              => (pc' = "read" /\ rowsRead' = rowsRead + 1 /\ ret' = <<>>)
        /\ (pc' = "scanned"
            /\ (HasNoEquals(lineRead')
                \/ (HasKeyAndEquals(lineRead') /\ OnlyBlanksAfterEquals(lineRead'))))
              => state' # "value_findEnd" ]_vars

C4_Witness ==
    /\ pc = "scanned"
    /\ rowsRead = 1
    /\ HasNoEquals(lineRead)
    /\ key # NULL
    /\ state = "equalSign_find"

\* C5 as stated: a line whose '=' is followed only by whitespace up to the
\* end of the line yields a pair with an empty value.
C5_BlankValueYieldsEmptyValue ==
    (/\ pc = "scanned"
     /\ HasNoNul(lineRead)
     /\ CommentPositions(lineRead) = {}
     /\ HasKeyAndEquals(lineRead)
     /\ OnlyBlanksAfterEquals(lineRead))
        => (state = "value_findEnd" /\ ScannedValue = <<>>)

\* C5 amended: a line whose '=' is followed only by whitespace up to the end
\* of the line yields no pair, and nothing is returned from it.
C5_BlankValueYieldsNoPair ==
    (pc \in {"scanned", "returned"} /\ OnlyBlanksAfterEquals(lineRead))
        => (state # "value_findEnd" /\ ret = <<>>)

C5_Witness ==
    /\ pc = "scanned"
    /\ HasKeyAndEquals(lineRead)
    /\ OnlyBlanksAfterEquals(lineRead)
    /\ FirstEquals(lineRead) + 1 < Len(lineRead)
    /\ key # NULL
    /\ state = "value_trimLeadingSpaces"

\* the first character of the line that is neither a space nor special is '='
FirstNonBlankIsEquals(t) ==
    /\ NonBlankPositions(t, 1, Len(t)) # {}
    /\ t[Min(NonBlankPositions(t, 1, Len(t)))] = EQUALS

\* C6: a line whose first non-blank character is '=' yields no pair: the
\* scan of the line stops at that character and no key is found or compared
\* with keyToFind.
C6_LeadingEqualsStopsTheScan ==
    FirstNonBlankIsEquals(lineRead) =>
        /\ pc \in {"scan", "exit", "scanned"}
              => (state = "key_trimLeadingSpaces" /\ key = NULL)
        /\ pc = "scan"
              => \/ currChar < Min(NonBlankPositions(lineRead, 1, Len(lineRead)))
                 \/ currChar >= bytesRead - 1
        /\ pc = "returned" => ret = <<>>

C6_Witness ==
    /\ pc = "scanned"
    /\ FirstNonBlankIsEquals(lineRead)
    /\ Min(NonBlankPositions(lineRead, 1, Len(lineRead))) + 2 < Len(lineRead)
    /\ currChar = bytesRead + 1

\* a "//" with no '=' before it
CommentBeforeEquals(t) ==
    /\ CommentPositions(t) # {}
    /\ \A e \in PositionsOf(t, {EQUALS}) : Min(CommentPositions(t)) < e

\* C7: a line in which "//" occurs before the '=' that would start the
\* value yields no pair, whatever follows the "//".
C7_CommentBeforeEqualsYieldsNoPair ==
    (pc \in {"scanned", "returned"} /\ CommentBeforeEquals(lineRead))
        => (state # "value_findEnd" /\ ret = <<>>)

C7_Witness ==
    /\ pc = "scanned"
    /\ lineRead = <<SLASH, SLASH, LETTER, EQUALS, LETTER, LF>>

\* C8: whenever the scan of a line succeeds the key and the value are
\* non-empty strings.
C8_KeyAndValueNonEmpty ==
    (pc = "scanned" /\ state = "value_findEnd")
        => (ScannedKey # <<>> /\ ScannedValue # <<>>)

C8_Witness ==
    /\ pc = "scanned"
    /\ state = "value_findEnd"
    /\ CommentPositions(lineRead) # {}
    /\ currentEndOfValue # NULL
    /\ currentEndOfValue = currentEndOfValueBeforeCommentSequence

\* ------------------------------------------------- describing a token
\* the token without its terminating 0
TokenText == CStr(token, 0)

\* no length bound was passed, or one that covers the whole token
WholeTokenIsInput == strlenPassed = 0 \/ strlenPassed = Len(TokenText)

DigitPositions(t) == PositionsOf(t, 48..57)

\* digits, then one multiplier character
IsDigitsThenMultiplier(t) ==
    /\ Len(t) >= 2
    /\ DigitPositions(t) = 1..(Len(t) - 1)
    /\ t[Len(t)] \in Multipliers

\* digits, a point, digits, then at most one multiplier character
IsFractionToken(t) ==
    /\ PositionsOf(t, {DOT}) # {}
    /\ LET point == Min(PositionsOf(t, {DOT}))
           last == IF t[Len(t)] \in Multipliers THEN Len(t) - 1 ELSE Len(t)
       IN  /\ point > 1
           /\ point < last
           /\ DigitPositions(t) = (1..last) \ {point}

\* the multiplier table as the specification gives it
MultiplierExponent(c) ==
    CASE c = 102 -> -15
      [] c = 112 -> -12
      [] c = 110 -> -9
      [] c = 117 -> -6
      [] c = 109 -> -3
      [] c = 99 -> -2
      [] c = 100 -> -1
      [] c = 104 -> 2
      [] c = 107 -> 3
      [] c = 77 -> 6
      [] c = 71 -> 9
      [] c = 84 -> 12
      [] c = 80 -> 15
      [] OTHER -> 0

\* the digits of t in order, everything else left out
DigitsOf(t) == SelectSeq(t, isAsciiNumber)

\* the number the digits of t spell when the point is ignored
Mantissa(t) == DigitsValue(DigitsOf(t), 0)

\* how many digits stand after the point
FractionLength(t) ==
    IF PositionsOf(t, {DOT}) = {} THEN 0
    ELSE Cardinality({i \in DigitPositions(t) : i > Min(PositionsOf(t, {DOT}))})

\* the power of ten the mantissa of t is to be multiplied with
ScaleOf(t, base) ==
    MultiplierExponent(t[Len(t)]) + base - FractionLength(t)

\* the decimal position of the first digit of t, leading zeros included
TopPosition(t, base) == ScaleOf(t, base) + Len(DigitsOf(t)) - 1

RECURSIVE Pow10(_)
Pow10(n) == IF n = 0 THEN 1 ELSE 10 * Pow10(n - 1)

\* m * 10^e is at most 2147483647
FitsInt32(m, e) ==
    m = 0 \/ e < 0 \/ (e <= 9 /\ m <= INT32_MAX \div Pow10(e))

\* trunc(m * 10^e) for 0 <= m < 10^9 when it fits
Scaled(m, e) ==
    IF m = 0 THEN 0
    ELSE IF e >= 0 THEN m * Pow10(e)
    ELSE m \div Pow10(Min({-e, 9}))

\* C9: digits followed by one multiplier character c and the end of input give
\* trunc(N * 10^(E(c) + baseExponent)) whenever that value fits a signed
\* 32-bit integer
C9_MultiplierScalesDigits ==
    (/\ fpPc = "done"
     /\ WholeTokenIsInput
     /\ IsDigitsThenMultiplier(TokenText)
     /\ FitsInt32(Mantissa(TokenText), ScaleOf(TokenText, baseExponent)))
    => fpResult = <<Scaled(Mantissa(TokenText),
                           ScaleOf(TokenText, baseExponent))>>

\* C10 as stated: digits '.' digits [multiplier] give the decimal value scaled
\* by 10^(multiplier exponent + baseExponent), fractional digits below
\* position 0 dropped, whenever that value fits a signed 32-bit integer
C10_FractionIsScaled ==
    (/\ fpPc = "done"
     /\ WholeTokenIsInput
     /\ IsFractionToken(TokenText)
     /\ FitsInt32(Mantissa(TokenText), ScaleOf(TokenText, baseExponent)))
    => fpResult = <<Scaled(Mantissa(TokenText),
                           ScaleOf(TokenText, baseExponent))>>

\* C10 amended: digits '.' digits [multiplier] give the decimal value scaled
\* by 10^(multiplier exponent + baseExponent) whenever no digit of the token,
\* leading zeros included, stands at a decimal position above 9 and the value
\* fits a signed 32-bit integer
C10_FractionIsScaledUpToPosition9 ==
    (/\ fpPc = "done"
     /\ WholeTokenIsInput
     /\ IsFractionToken(TokenText)
     /\ TopPosition(TokenText, baseExponent) <= 9
     /\ FitsInt32(Mantissa(TokenText), ScaleOf(TokenText, baseExponent)))
    => fpResult = <<Scaled(Mantissa(TokenText),
                           ScaleOf(TokenText, baseExponent))>>

\* "1.5k" at scale 0 has given 1500
C10_Witness ==
    /\ fpPc = "done"
    /\ TokenText = <<49, DOT, 53, CHAR_k>>
    /\ baseExponent = 0
    /\ fpResult = <<1500>>

\* ------------------------------------------------- C11: written exponents
EPositions(t) == PositionsOf(t, {CHAR_e, CHAR_E})

\* the text before the first 'e' or 'E'
MantissaPart(t) == SubSeq(t, 1, Min(EPositions(t)) - 1)

\* the text after the first 'e' or 'E'
ExponentPart(t) == SubSeq(t, Min(EPositions(t)) + 1, Len(t))

\* digits, or digits '.' digits
IsNumberText(m) ==
    /\ m # <<>>
    /\ PositionsOf(m, (48..57) \cup {DOT}) = 1..Len(m)
    /\ Cardinality(PositionsOf(m, {DOT})) <= 1
    /\ m[1] # DOT
    /\ m[Len(m)] # DOT

\* digits with at most a '-' before them
IsDecimalExponent(x) ==
    /\ x # <<>>
    /\ LET digits == IF x[1] = MINUS THEN Tail(x) ELSE x
       IN  digits # <<>> /\ DigitPositions(digits) = 1..Len(digits)

IsExponentToken(t) ==
    /\ EPositions(t) # {}
    /\ IsNumberText(MantissaPart(t))
    /\ IsDecimalExponent(ExponentPart(t))

ExponentValue(x) ==
    IF x[1] = MINUS THEN -DigitsValue(Tail(x), 0) ELSE DigitsValue(x, 0)

\* the power of ten the mantissa of an exponent token is multiplied with
SciScale(t, base) ==
    ExponentValue(ExponentPart(t)) + base - FractionLength(MantissaPart(t))

SciTopPosition(t, base) ==
    SciScale(t, base) + Len(DigitsOf(MantissaPart(t))) - 1

SciValue(t, base) == Scaled(Mantissa(MantissaPart(t)), SciScale(t, base))

\* C11: for digits [. digits] followed by 'e' or 'E' and a decimal exponent
\* the exponent is added to the decimal position, with a length bound that
\* covers the token and with none, with and without a decimal point (stated
\* for the values that fit and have no digit above position 9)
C11_WrittenExponentIsAdded ==
    (/\ fpPc = "done"
     /\ WholeTokenIsInput
     /\ IsExponentToken(TokenText)
     /\ SciTopPosition(TokenText, baseExponent) <= 9
     /\ FitsInt32(Mantissa(MantissaPart(TokenText)),
                  SciScale(TokenText, baseExponent)))
    => fpResult = <<SciValue(TokenText, baseExponent)>>

\* ------------------------------------------------- C12: overflow
\* t without a '-' in front
Unsigned(t) == IF t # <<>> /\ t[1] = MINUS THEN Tail(t) ELSE t

IsDigits(t) == t # <<>> /\ DigitPositions(t) = 1..Len(t)

\* [-] digits [. digits] [multiplier]
IsSignedNumber(t) ==
    \/ IsDigits(Unsigned(t))
    \/ IsDigitsThenMultiplier(Unsigned(t))
    \/ IsFractionToken(Unsigned(t))

RECURSIVE StripZeros(_)
StripZeros(ds) ==
    IF ds # <<>> /\ Head(ds) = DIGIT_0 THEN StripZeros(Tail(ds)) ELSE ds

\* the first ten digits of ds followed by zeros
TenDigits(ds) ==
    [i \in 1..10 |-> IF i <= Len(ds) THEN ds[i] ELSE DIGIT_0]

LexGreater(x, y) ==
    \E i \in 1..Len(x) :
        /\ x[i] > y[i]
        /\ \A j \in 1..(i - 1) : x[j] = y[j]

\* the integer part of digits * 10^scale is greater than 2147483647
ExceedsInt32(digits, scale) ==
    LET sig == StripZeros(digits)
        integerDigits == Len(sig) + scale
    IN  /\ sig # <<>>
        /\ \/ integerDigits > 10
           \/ /\ integerDigits = 10
              /\ LexGreater(TenDigits(sig), Format(INT32_MAX))

\* C12: whenever the magnitude of the scaled value of a token is greater than
\* 2147483647, atoiFP returns 0, never a wrapped, truncated or saturated value
C12_OverflowReturnsZero ==
    (/\ fpPc = "done"
     /\ WholeTokenIsInput
     /\ IsSignedNumber(TokenText)
     /\ ExceedsInt32(DigitsOf(TokenText), ScaleOf(TokenText, baseExponent)))
    => fpResult = <<0>>

\* ------------------------------------------------- C13: a unit after the number
\* a letter that is neither a multiplier nor an exponent marker
IsUnitChar(c) ==
    /\ c \in (65..90) \cup (97..122)
    /\ c \notin Multipliers \cup {CHAR_e, CHAR_E}

\* the length of the run of digits and points t starts with
NumberPrefixLen(t) ==
    Min({i \in 0..Len(t) : i = Len(t) \/ t[i + 1] \notin (48..57) \cup {DOT}})

NumberPrefix(t) == SubSeq(t, 1, NumberPrefixLen(t))

\* a complete number directly followed by a unit
IsNumberThenUnit(t) ==
    /\ IsNumberText(NumberPrefix(t))
    /\ NumberPrefixLen(t) < Len(t)
    /\ IsUnitChar(t[NumberPrefixLen(t) + 1])

\* the value of the number a token starts with, at scale base
PrefixValue(t, base) ==
    Scaled(Mantissa(NumberPrefix(t)), base - FractionLength(NumberPrefix(t)))

\* C13: a complete number directly followed by text that is no multiplier
\* makes atoiFP return 0 when ignoreUnit is 0 and the number when it is not
C13_UnitFailsUnlessIgnored ==
    (/\ fpPc = "done"
     /\ WholeTokenIsInput
     /\ IsNumberThenUnit(TokenText))
    => IF ignoreUnit = 0 THEN fpResult = <<0>>
       ELSE fpResult = <<PrefixValue(TokenText, baseExponent)>>

\* ------------------------------------------------- C14: no number at the start
\* the part of the token that the length bound lets atoiFP scan
Input ==
    IF strlenPassed > 0 THEN SubSeq(TokenText, 1, Min({strlenPassed, Len(TokenText)}))
    ELSE TokenText

\* the positions of the input that hold neither a space nor a sign
SignificantPositions(t) == {i \in 1..Len(t) : t[i] \notin {SPACE, PLUS, MINUS}}

\* the input is over before a digit or '.' was seen
NoNumberInInput == SignificantPositions(Input) = {}

\* the first character that is no space or sign is neither a digit nor '.'
StartsWithInvalidCharacter ==
    /\ SignificantPositions(Input) # {}
    /\ Input[Min(SignificantPositions(Input))] \notin (48..57) \cup {DOT}

\* C14: if the first character that is not a space, '+' or '-' is neither a
\* digit nor '.', atoiFP returns 0 at once, at that character; if the input
\* ends before any digit or '.' was seen, atoiFP returns 0
C14_NoNumberReturnsZero ==
    fpPc = "done" =>
       /\ NoNumberInInput => fpResult = <<0>>
       /\ StartsWithInvalidCharacter =>
             /\ fpResult = <<0>>
             /\ a = Min(SignificantPositions(Input)) - 1
             /\ fpState = "waitStart"
             /\ \A i \in fpReads : i <= a

\* " -s" was refused at the 's'
C14_Witness ==
    /\ fpPc = "done"
    /\ TokenText = <<SPACE, MINUS, CHAR_s>>
    /\ StartsWithInvalidCharacter
    /\ a = 2
    /\ fpResult = <<0>>

\* a token of a space and signs only has given 0
C14_WitnessNoNumber ==
    /\ fpPc = "done"
    /\ TokenText = <<SPACE, PLUS, MINUS>>
    /\ NoNumberInInput
    /\ fpResult = <<0>>

\* ------------------------------------------------- C15: exponent marker alone
\* a number, an 'e' or 'E' directly after it, and no digit after that
IsDanglingExponent(t) ==
    /\ EPositions(t) # {}
    /\ IsNumberText(MantissaPart(t))
    /\ ExponentPart(t) \in {<<>>, <<MINUS>>, <<PLUS>>}

\* C15: a token whose exponent marker directly follows the number and has no
\* digit after it is a parse failure: atoiFP returns 0, not the mantissa
C15_ExponentWithoutDigitsFails ==
    (/\ fpPc = "done"
     /\ WholeTokenIsInput
     /\ IsDanglingExponent(TokenText))
    => fpResult = <<0>>

\* ------------------------------------------------- C16: truncation
\* the integer part of digits * 10^scale: the digits below position 0 are
\* cut off, nothing is rounded
TruncatedValue(digits, scale) ==
    IF scale >= 0
    THEN DigitsValue(digits \o [i \in 1..scale |-> DIGIT_0], 0)
    ELSE DigitsValue(SubSeq(digits, 1, Len(digits) + scale), 0)

IsNegativeText(t) == t # <<>> /\ t[1] = MINUS

\* C16: the digits whose decimal position after multiplier and baseExponent
\* is below 0 contribute nothing, for positive and negative numbers alike:
\* the result is the value truncated toward zero (stated for the values that
\* fit and have no digit above position 9)
C16_TruncatesTowardZero ==
    (/\ fpPc = "done"
     /\ WholeTokenIsInput
     /\ IsSignedNumber(TokenText)
     /\ TopPosition(TokenText, baseExponent) <= 9
     /\ ~ExceedsInt32(DigitsOf(TokenText), ScaleOf(TokenText, baseExponent)))
    => LET magnitude == TruncatedValue(DigitsOf(TokenText),
                                       ScaleOf(TokenText, baseExponent))
       IN  fpResult = <<IF IsNegativeText(TokenText) THEN -magnitude
                        ELSE magnitude>>

\* ------------------------------------------------- C17: round trip
\* C17: at base exponent 0 the decimal text of n, 0 <= n <= 2147483647, is
\* parsed back to n, and '-' followed by that text to -n; the text m 'e' e
\* with m * 10^e <= 2147483647 is parsed to m * 10^e
C17_RoundTrip ==
    (/\ fpPc = "done"
     /\ WholeTokenIsInput
     /\ baseExponent = 0)
    => /\ \A n \in RoundTripNumbers :
             /\ TokenText = Format(n) => fpResult = <<n>>
             /\ TokenText = <<MINUS>> \o Format(n) => fpResult = <<-n>>
       /\ \A m \in 0..MaxSciMantissa, x \in 0..MaxSciExponent :
             (/\ TokenText = Format(m) \o <<CHAR_e>> \o Format(x)
              /\ FitsInt32(m, x))
             => fpResult = <<Scaled(m, x)>>

\* the text of 2147483647 has been parsed back to 2147483647
C17_Witness ==
    /\ fpPc = "done"
    /\ baseExponent = 0
    /\ TokenText = Format(INT32_MAX)
    /\ fpResult = <<INT32_MAX>>

\* "21e8" has given 2100000000
C17_WitnessScientific ==
    /\ fpPc = "done"
    /\ baseExponent = 0
    /\ TokenText = Format(21) \o <<CHAR_e>> \o Format(8)
    /\ fpResult = <<2100000000>>

\* ------------------------------------------------- C18: the first match
\* the scan of the current line has succeeded with exactly the key looked for
LineDefinesKey ==
    /\ pc = "scanned"
    /\ state = "value_findEnd"
    /\ CStr(rowBuffer, key) = keyToFind

C19_AtMostMaxLinesRead == linesRead <= CONFIG_MAX_LINE_COUNT

\* ------------------------------------------------- C20: writes to the line
\* C20: every index the scan writes a 0 to is at least 0 and below
\* bytesRead-1 of the current line
C20_WritesStayInsideTheLine ==
    \A i \in written :
        /\ 0 <= i
        /\ i < bytesRead - 1
        /\ At(rowBuffer, i) = NUL

\* the scan of "k = k // " has written the end of the key, the cut at the
\* comment and the end of the value
C20_Witness ==
    /\ pc = "scanned"
    /\ Cardinality(written) = 3
    /\ state = "value_findEnd"

\* ------------------------------------------------- C21: no state between calls
\* the arguments of the running call are those of the earlier call f
SameArguments(f) ==
    /\ f.a = token
    /\ f.strlen = strlenPassed
    /\ f.baseExponent = baseExponent
    /\ f.ignoreUnit = ignoreUnit

C22_ValueIsTrimmed ==
    (pc = "scanned" /\ state = "value_findEnd")
        => /\ ScannedValue # <<>>
           /\ ~IsBlank(ScannedValue[1])
           /\ ~IsBlank(ScannedValue[Len(ScannedValue)])

\* ------------------------------------------------- C23: setBit and getBit
\* bit n of the byte array
BitOf(d, n) == (At(d, n \div 8) \div (2 ^ (n % 8))) % 2

\* C23: after any sequence of setBit calls on an all-zero array getBit(n) is 1
\* if the last setBit on n had a non-zero value and 0 otherwise, for every n,
\* and a setBit on n changes no bit other than n
C23_GetBitReturnsLastSet ==
    /\ [](\A n \in BitNumbers :
            getBit(data, n) = IF lastSet[n] \notin {NULL, 0} THEN 1 ELSE 0)
    /\ [][\A n \in BitNumbers :
            (lastSet'[n] = lastSet[n]) => (BitOf(data', n) = BitOf(data, n))]_vars

\* ------------------------------------------------- C24: qSin
\* C24: 512 is a full period of qSin: the value has a magnitude of at most
\* 500000, is 0 at 0, 256 and 512 and 500000 at 128, qSin(x + 512) = qSin(x)
\* for x >= 0, and the table index is inside the 256 entries of the table
C24_PeriodIs512 ==
    sinResult # <<>> =>
        /\ abs(sinResult[1]) <= 500000
        /\ sinX \in {0, 256, 512} => sinResult[1] = 0
        /\ sinX = 128 => sinResult[1] = 500000
        /\ sinX >= 0 => qSin(sinX + 512) = sinResult[1]
        /\ sinIndex \in 0..(Len(sineTable) - 1)

\* ------------------------------------------------- C25: PWL_getY
\* the table of the call, its rows counted from 0
PwlRowX(i) == RowAt(pwl[1], i, 0)

PwlRowY(i) == RowAt(pwl[1], i, 1)

PwlLastEntry == pwl[1].listSizeRows - 1

\* the call had a table of at least 2 rows without precomputed derivative
IsPlainTable ==
    /\ pwlResult # <<>>
    /\ pwl # <<>>
    /\ pwl[1].listSizeRows >= 2
    /\ pwl[1].preComputedDerivative = 0

Between(v, y1, y2) == (y1 <= v /\ v <= y2) \/ (y2 <= v /\ v <= y1)

\* x equal to the x of a row returns the y of that row
PwlExactAtRows ==
    IsPlainTable =>
        \A i \in 0..PwlLastEntry : pwlX = PwlRowX(i) => pwlResult[1] = PwlRowY(i)

\* x strictly between two rows is interpolated between these two rows and
\* the result lies between their y values
PwlInsideIsBetween ==
    IsPlainTable =>
        \A i \in 0..(PwlLastEntry - 1) :
            (PwlRowX(i) < pwlX /\ pwlX < PwlRowX(i + 1))
                => /\ pwlRows = <<i, i + 1>>
                   /\ Between(pwlResult[1], PwlRowY(i), PwlRowY(i + 1))

\* x outside the table uses the first two or the last two rows
PwlOutsideUsesEndRows ==
    IsPlainTable =>
        /\ pwlX < PwlRowX(0) => pwlRows = <<0, 1>>
        /\ pwlX > PwlRowX(PwlLastEntry)
                => pwlRows = <<PwlLastEntry - 1, PwlLastEntry>>

\* no table or fewer than 2 rows returns 0
PwlNoTableIsZero ==
    (pwlResult # <<>> /\ (pwl = <<>> \/ pwl[1].listSizeRows < 2))
        => pwlResult[1] = 0

\* C25: for a sorted table of at least 2 rows without precomputed derivative
\* PWL_getY returns y_i at x = x_i, a value between y_i and y_(i+1) computed
\* from rows i and i+1 for x_i < x < x_(i+1), uses the first two rows below
\* the table and the last two rows above it, and returns 0 for no table or
\* fewer than 2 rows
C25_InterpolatesBetweenNeighbours ==
    /\ PwlExactAtRows
    /\ PwlInsideIsBetween
    /\ PwlOutsideUsesEndRows
    /\ PwlNoTableIsZero

\* ------------------------------------------------- C26: leading signs
\* the characters of the input in front of the first one that is neither a
\* space nor a sign
SignPrefix ==
    IF SignificantPositions(Input) = {} THEN Input
    ELSE SubSeq(Input, 1, Min(SignificantPositions(Input)) - 1)

OddMinusCount == Cardinality(PositionsOf(SignPrefix, {MINUS})) % 2 = 1

\* the first character after spaces and signs is a digit or '.'
NumberFollowsSigns ==
    /\ SignificantPositions(Input) # {}
    /\ Input[Min(SignificantPositions(Input))] \in (48..57) \cup {DOT}

\* C26: in front of the first digit or '.' atoiFP skips spaces and any number
\* of '+' and '-'; the number is negative exactly if the count of '-' in front
\* of it is odd, and the sign is applied to the accumulated magnitude only
\* when atoiFP returns
C26_SignIsParityOfMinus ==
    /\ [](fpPc = "done" =>
            /\ isNumberNegative = OddMinusCount
            /\ NumberFollowsSigns
                  => startOfNumber = Min(SignificantPositions(Input)) - 1)
    /\ [][(fpPc = "walk" /\ ~WalkContinues)
            => fpResult' = <<IF OddMinusCount THEN Neg32(fpRet) ELSE fpRet>>]_vars
    /\ [][(fpPc' # "done") => (fpResult' = <<>>)]_vars

\* "--1" was converted to 1
C26_Witness ==
    /\ fpPc = "done"
    /\ baseExponent = 0
    /\ WholeTokenIsInput
    /\ TokenText = <<MINUS, MINUS, DIGIT_0 + 1>>
    /\ ~isNumberNegative
    /\ fpResult = <<1>>

\* ------------------------------------------------- C27: signed exponents
\* digits with at most one '+' or '-' before them
IsSignedExponent(x) ==
    /\ x # <<>>
    /\ LET digits == IF x[1] \in {PLUS, MINUS} THEN Tail(x) ELSE x
       IN  IsDigits(digits)

SignedExponentValue(x) ==
    IF x[1] = MINUS THEN -DigitsValue(Tail(x), 0)
    ELSE IF x[1] = PLUS THEN DigitsValue(Tail(x), 0)
    ELSE DigitsValue(x, 0)

\* digits, 'e' or 'E', an exponent with or without a sign
IsSignedExponentToken(t) ==
    /\ EPositions(t) # {}
    /\ IsDigits(MantissaPart(t))
    /\ IsSignedExponent(ExponentPart(t))

SignedExponentScale(t, base) == SignedExponentValue(ExponentPart(t)) + base

\* C27: 'e' or 'E' followed by a sign, '+' as well as '-', and digits starts
\* the written exponent, and the signed number is added to the decimal
\* exponent: "1e+3" is 1000 as "1e3" is, "1000e-3" is 1 (stated for the values
\* that fit and have no digit above position 9)
C27_SignedExponentIsAdded ==
    (/\ fpPc = "done"
     /\ WholeTokenIsInput
     /\ IsSignedExponentToken(TokenText)
     /\ SignedExponentScale(TokenText, baseExponent)
            + Len(MantissaPart(TokenText)) - 1 <= 9
     /\ FitsInt32(Mantissa(MantissaPart(TokenText)),
                  SignedExponentScale(TokenText, baseExponent)))
    => fpResult = <<Scaled(Mantissa(MantissaPart(TokenText)),
                           SignedExponentScale(TokenText, baseExponent))>>

\* ------------------------------------------------- C28: digits after a multiplier
\* digits, one character of chars, digits
IsDigitsCharDigits(t, chars) ==
    /\ Len(t) >= 3
    /\ Cardinality(PositionsOf(t, chars)) = 1
    /\ LET p == Min(PositionsOf(t, chars))
       IN  /\ 1 < p /\ p < Len(t)
           /\ DigitPositions(t) = (1..Len(t)) \ {p}

MultiplierPosition(t) == Min(PositionsOf(t, Multipliers))

\* the digits in front of the multiplier
IntegerDigits(t) == SubSeq(t, 1, MultiplierPosition(t) - 1)

\* the power of ten of the multiplier and the base
MultiplierScale(t, base) == MultiplierExponent(t[MultiplierPosition(t)]) + base

\* the power of ten for all digits of t when those after the multiplier are
\* fractional digits
InfixScale(t, base) == MultiplierScale(t, base) - (Len(t) - MultiplierPosition(t))

\* C28 as stated: after a plain multiplier character the digits that follow
\* are not consumed and do not change the result: digits multiplier digits,
\* when accepted, gives what digits multiplier gives
C28_DigitsAfterMultiplierAreIgnored ==
    (/\ fpPc = "done"
     /\ WholeTokenIsInput
     /\ IsDigitsCharDigits(TokenText, Multipliers)
     /\ MultiplierScale(TokenText, baseExponent)
            + Len(IntegerDigits(TokenText)) - 1 <= 9
     /\ FitsInt32(Mantissa(IntegerDigits(TokenText)),
                  MultiplierScale(TokenText, baseExponent)))
    => fpResult \in {<<0>>,
                     <<Scaled(Mantissa(IntegerDigits(TokenText)),
                              MultiplierScale(TokenText, baseExponent))>>}

\* C28 amended: after a multiplier character that ended the integer digits
\* the scan goes on, and the digits that follow are fractional digits, each
\* one position lower: digits multiplier digits gives all the digits scaled
\* by the multiplier, the base and the count of digits after the multiplier
\* (stated for the values that fit and have no digit above position 9)
C28_DigitsAfterMultiplierAreFraction ==
    (/\ fpPc = "done"
     /\ WholeTokenIsInput
     /\ IsDigitsCharDigits(TokenText, Multipliers)
     /\ getExponent(TokenText[MultiplierPosition(TokenText)]) # DIGIT_EXPONENT
     /\ MultiplierScale(TokenText, baseExponent)
            + Len(IntegerDigits(TokenText)) - 1 <= 9
     /\ FitsInt32(Mantissa(TokenText), InfixScale(TokenText, baseExponent)))
    => fpResult = <<Scaled(Mantissa(TokenText),
                           InfixScale(TokenText, baseExponent))>>

\* "1k5" at scale 0 has given 1500
C28_Witness ==
    /\ fpPc = "done"
    /\ TokenText = <<DIGIT_0 + 1, CHAR_k, DIGIT_0 + 5>>
    /\ WholeTokenIsInput
    /\ baseExponent = 0
    /\ fpResult = <<1500>>

\* ------------------------------------------------- C29: finalization
\* the walk is about to look at a digit
WalksOntoDigit ==
    /\ fpPc = "walk"
    /\ WalkContinues
    /\ isAsciiNumber(At(token, a - 1))

WalkedDigit == ctoi(At(token, a - 1))

\* C29: in the walk a digit at position 10 or above makes atoiFP return 0
\* whatever the digit, a leading 0 included, and so does a digit of 3 or more
\* at position 9; any other digit at a position of 0 to 9 adds
\* digit * 10^position to the result: "00000000001" and "3000000000" at
\* scale 0 return 0
C29_FinalizationRules ==
    /\ [][WalksOntoDigit =>
            LET position == currentNumberPositionExponent
            IN  /\ (position >= 10 \/ (position = 9 /\ WalkedDigit >= 3))
                      => (fpPc' = "done" /\ fpResult' = <<0>>)
                /\ (0 <= position /\ position <= 9
                       /\ ~(position = 9 /\ WalkedDigit >= 3))
                      => /\ fpPc' = "walk"
                         /\ fpRet' = Add32(fpRet, WalkedDigit * Pow10(position))
                         /\ currentNumberPositionExponent' = position + 1]_vars
    /\ []((/\ fpPc = "done"
           /\ WholeTokenIsInput
           /\ baseExponent = 0
           /\ TokenText \in
                 {TextOfDigits(<<0, 0, 0, 0, 0, 0, 0, 0, 0, 0, 1>>),
                  TextOfDigits(<<3, 0, 0, 0, 0, 0, 0, 0, 0, 0>>)})
          => fpResult = <<0>>)

\* "00000000001" at scale 0 was refused at its first 0, at position 10
C29_Witness ==
    /\ fpPc = "done"
    /\ TokenText = TextOfDigits(<<0, 0, 0, 0, 0, 0, 0, 0, 0, 0, 1>>)
    /\ baseExponent = 0
    /\ a = 0
    /\ currentNumberPositionExponent = 10
    /\ fpRet = 1
    /\ fpResult = <<0>>

\* ------------------------------------------------- C30: text between key and '='
\* the first character of t that is not blank
FirstWordStart(t) == Min(NonBlankPositions(t, 1, Len(t)))

\* the first blank or '=' after the start of the first word
FirstWordStops(t) ==
    {i \in (FirstWordStart(t) + 1)..Len(t) : IsBlank(t[i]) \/ t[i] = EQUALS}

FirstWord(t) == SubSeq(t, FirstWordStart(t), Min(FirstWordStops(t)) - 1)

\* the '=' signs after the end of the first word
EqualsAfterKey(t) == {i \in PositionsOf(t, {EQUALS}) : i > Min(FirstWordStops(t))}

\* key, a blank, any text without '=' that is not all blank, '=', a value,
\* and the end of the value is a blank that the scan gets to see
IsKeyJunkValueText(t) ==
    /\ HasNoNul(t)
    /\ CommentPositions(t) = {}
    /\ NonBlankPositions(t, 1, Len(t)) # {}
    /\ t[FirstWordStart(t)] # EQUALS
    /\ FirstWordStops(t) # {}
    /\ IsBlank(t[Min(FirstWordStops(t))])
    /\ EqualsAfterKey(t) # {}
    /\ LET stop == Min(FirstWordStops(t))
           eq == Min(EqualsAfterKey(t))
       IN  /\ NonBlankPositions(t, stop, eq - 1) # {}
           /\ NonBlankPositions(t, eq + 1, Len(t)) # {}
           /\ Max(NonBlankPositions(t, eq + 1, Len(t))) <= Len(t) - 2

ValueAfterJunk(t) ==
    LET eq == Min(EqualsAfterKey(t))
    IN  SubSeq(t, Min(NonBlankPositions(t, eq + 1, Len(t))),
                  Max(NonBlankPositions(t, eq + 1, Len(t))))

\* the scan looks at a character that is not the second slash of a comment
ScansCharacterIn(st) ==
    /\ pc = "scan"
    /\ state = st
    /\ currChar < LoopLimit(bytesRead)
    /\ At(rowBuffer, currChar) # NUL
    /\ ~IsCommentSequence(At(rowBuffer, currChar), consequitiveslashCount)

IsCutOf(f) ==
    /\ f.strlen = strlenPassed
    /\ f.baseExponent = baseExponent
    /\ f.ignoreUnit = ignoreUnit
    /\ Len(f.a) - 1 > strlenPassed
    /\ TokenText = SubSeq(f.a, 1, strlenPassed)

\* C31: with a length bound n > 0 atoiFP reads no character of the token at
\* index n or beyond, the look-ahead after 'e' or 'E' included, and returns
\* what it returns for the token cut to its first n characters
C31_BoundLimitsReads ==
    /\ strlenPassed > 0 =>
          \A i \in fpReads : i < strlenPassed \/ i >= Len(TokenText)
    /\ fpPc = "done" =>
          \A f \in finished : IsCutOf(f) => f.result = fpResult

\* ------------------------------------------------- C32: overlong lines
\* the reads of the overlong line before its last one
FullChunks(chunks) == SubSeq(chunks, 1, Len(chunks) - 1)

\* C32: once a read fills the whole row buffer, every further read that
\* fills it is consumed too and neither counted nor scanned; the first read
\* shorter than the buffer ends the line, which is counted as one row, and
\* the file loop goes on with the read after it; no part of the line is
\* handed to the scan
C32_OverlongLineIsSkipped ==
    [][/\ (pc = "read" /\ pc' = "skip") =>
             /\ chunksSkipped' = <<CONFIG_MAX_LINE_SIZE>>
             /\ rowsRead' = rowsRead
       /\ pc = "skip" =>
             /\ pc' \in {"skip", "read"}
             /\ rowBuffer' = rowBuffer /\ lineRead' = lineRead
             /\ ret' = ret
             /\ Len(chunksSkipped') = Len(chunksSkipped) + 1
             /\ FullChunks(chunksSkipped') = chunksSkipped
             /\ \A i \in 1..Len(chunksSkipped) :
                    chunksSkipped[i] >= CONFIG_MAX_LINE_SIZE
             /\ LET last == chunksSkipped'[Len(chunksSkipped')]
                IN  IF last < CONFIG_MAX_LINE_SIZE
                    THEN /\ pc' = "read"
                         /\ rowsRead' = rowsRead + 1
                         /\ linesRead' = linesRead
                    ELSE /\ pc' = "skip"
                         /\ rowsRead' = rowsRead
                         /\ linesRead' = linesRead]_vars

\* a line of three reads has been skipped: two that filled the buffer and a
\* shorter one; it was counted as the first row, the next read is due
C32_Witness ==
    /\ pc = "read"
    /\ Len(chunksSkipped) = 3
    /\ chunksSkipped[3] \in 1..(CONFIG_MAX_LINE_SIZE - 1)
    /\ rowsRead = 1
    /\ linesRead = 1

\* ------------------------------------------------- C33: reads of the token
\* C33: every index of the token that atoiFP dereferences lies between 0 and
\* the index of the terminating 0, also during the walk back from the end
\* of the number to its start
C33_ReadsStayInsideToken ==
    \A i \in fpReads : 0 <= i /\ i <= Len(TokenText)

\* ------------------------------------------------- C34: the row buffer
\* C34: when CONFIG_getKey has returned (no byte read, key matched, line
\* limit reached) the row buffer has been freed exactly once; before that it
\* has not been freed, and it is never read or written after a free
C34_RowBufferFreedOnce ==
    /\ pc = "returned" => rowBufferFrees = 1
    /\ pc # "returned" => rowBufferFrees = 0
    /\ ~usedAfterFree

\* the value of the second line was copied and returned, the buffer is freed
C34_Witness ==
    /\ pc = "returned"
    /\ ret # <<>>
    /\ rowsRead = 1
    /\ rowBufferFrees = 1
====
